---- MODULE Spec2Model ----
(***************************************************************************)
(* Token lifecycle of the integration gateway: AuthService over the        *)
(* clients and sessions tables, the /auth controllers and the              *)
(* authentication middleware.                                              *)
(*                                                                         *)
(* Time is Date.now() in milliseconds.  crypto.randomBytes is modelled by  *)
(* a counter: every draw is a value never drawn before.                    *)
(***************************************************************************)
EXTENDS Integers, Sequences, FiniteSets, Bags, TLC

VARIABLES
    clients,    \* clients table: row id -> row
    sessions,   \* sessions table: row id -> row
    nextId,     \* sessions AUTOINCREMENT sequence: the next row id
    nextRand,   \* the next value crypto.randomBytes yields
    now,        \* Date.now(), in ms
    ticks,      \* how many times the clock has advanced
    pending,    \* createTokenResponse calls waiting for verifySecret (a bag)
    issued,     \* token pairs returned to callers so far
    rotated,    \* <<refresh token, id of the session that replaced it>>
    calls,      \* the upstream call a proxy request waits for (none, or one)
    last,       \* the latest exchange on a proxy route
    http,       \* HttpClient objects: their configuration and the call each makes
    hook,       \* the latest exchange on a webhook route
    generated,  \* what the latest direct call of generateTokens returned
    logged,     \* what the latest call of BaseTransformer.execute wrote to the log
    requestCounts,      \* rateLimiter: address -> requests counted in its window
    requestTimestamps,  \* rateLimiter: address -> start of its window, in ms
    traffic     \* per address, what the rate limiter answered since its window opened

vars == <<clients, sessions, nextId, nextRand, now, ticks, pending, issued, rotated, calls, last, http, hook,
         generated, logged, requestCounts, requestTimestamps, traffic>>

----------------------------------------------------------------------------
(* Bounds of the model *)

MaxSessions == 2
MaxTicks == 3
MaxOverLimit == 2
MaxByOthers == 2

(* Program constants *)

ExpiresIn == 3600
RefreshFactor == 24
MsPerSecond == 1000
MsPerDay == 24 * 3600 * MsPerSecond
BcryptMaxBytes == 72
RATE_LIMIT == 100
TIME_WINDOW == 60 * 1000

\* The instants the clock visits, as steps from the previous one: half a second
\* past the access lifetime, the rest of the refresh lifetime, the access
\* lifetime to the millisecond; then again.
TickStep(i) ==
    LET access == ExpiresIn * MsPerSecond
        refresh == ExpiresIn * RefreshFactor * MsPerSecond
        phase == i % 3
    IN IF phase = 0 THEN access + 500
       ELSE IF phase = 1 THEN refresh - access
       ELSE access

ClientRows == {1, 2}
ClientName(c) == IF c = 1 THEN "acme" ELSE IF c = 2 THEN "globex" ELSE "client"
\* The secrets createClient was given, as sequences of one-byte characters: a
\* short one, and a passphrase one byte longer than bcrypt reads.
SecretOf(c) ==
    IF c = 1 THEN <<"s", "3", "c", "r", "3", "t">>
    ELSE [i \in 1..(BcryptMaxBytes + 1) |-> "x"]
ClientNames == {ClientName(c) : c \in ClientRows} \cup {"unknown"}
Secrets == {SecretOf(c) : c \in ClientRows}

Null == [null |-> TRUE]
jwtSecret == "jwtSecret"
otherKey == "otherKey"

----------------------------------------------------------------------------
(* utils/hash.ts *)

\* what bcrypt hashes: the first 72 bytes of the text, the rest is not read
bcryptKey(plainText) ==
    IF Len(plainText) <= BcryptMaxBytes THEN plainText
    ELSE SubSeq(plainText, 1, BcryptMaxBytes)

\* bcrypt.hash: one-way; the stored hash is never the plain text
hashSecret(plainText) == <<"bcrypt", bcryptKey(plainText)>>

\* bcrypt.compare
verifySecret(plainText, hash) == hash = hashSecret(plainText)

----------------------------------------------------------------------------
(* Date <-> ISO-8601 text.  toISOString yields fixed-width                 *)
(* YYYY-MM-DDTHH:mm:ss.sssZ, modelled by its three numeric parts; SQLite    *)
(* compares the text left to right.                                        *)

toISOString(ms) == <<ms \div MsPerDay, (ms % MsPerDay) \div MsPerSecond, ms % MsPerSecond>>

\* new Date(text): parse back to ms
parseDate(iso) == iso[1] * MsPerDay + iso[2] * MsPerSecond + iso[3]

\* text comparison a < b (SQLite binary collation on the stored text)
textLess(a, b) ==
    \/ a[1] < b[1]
    \/ a[1] = b[1] /\ a[2] < b[2]
    \/ a[1] = b[1] /\ a[2] = b[2] /\ a[3] < b[3]

----------------------------------------------------------------------------
(* utils/token.ts *)

\* jwt.sign({clientId, type: 'access', jti}, secret, {expiresIn}):
\* iat is the current time in whole seconds, exp = iat + expiresIn
\* HMAC of the payload under a key
signature(key, clientId, type, jti, iat, exp) == <<key, clientId, type, jti, iat, exp>>

signToken(clientId, jti, key, expiresIn, t) ==
    LET iat == t \div MsPerSecond
        exp == iat + expiresIn
    IN [kind |-> "jwt", clientId |-> clientId, type |-> "access", jti |-> jti,
        iat |-> iat, exp |-> exp,
        sig |-> signature(key, clientId, "access", jti, iat, exp)]

generateAccessToken(clientId, expiresIn, t, rand) ==
    signToken(clientId, rand, jwtSecret, expiresIn, t)

\* crypto.randomBytes(32).toString('hex'): opaque, no claims
generateRefreshToken(rand) ==
    [kind |-> "opaque", clientId |-> "", type |-> "", jti |-> rand,
     iat |-> 0, exp |-> 0, sig |-> <<>>]

\* a string that is no token at all ('invalid_token')
garbageToken == generateRefreshToken(0)

\* a body field that is absent
noToken == [generateRefreshToken(0) EXCEPT !.kind = "absent"]

\* verifyToken decoding the payload without checking the signature
verifyToken_unsigned(token, t) ==
    /\ token.kind = "jwt"
    /\ ~((t \div MsPerSecond) >= token.exp)

\* jwt.verify: TRUE when it returns the payload, FALSE when verifyToken throws
verifyToken(token, t) ==
    /\ token.kind = "jwt"
    /\ token.sig = signature(jwtSecret, token.clientId, token.type, token.jti,
                             token.iat, token.exp)
    /\ ~((t \div MsPerSecond) >= token.exp)

getExpirationDate(expiresInSeconds, t) == t + expiresInSeconds * MsPerSecond

----------------------------------------------------------------------------
(* services/authService.ts: AuthService over the two tables *)

\* SELECT * FROM clients WHERE client_id = ? AND is_active = 1  (.get)
selectActiveClient(C, clientId) ==
    LET hit == {c \in DOMAIN C : C[c].client_id = clientId /\ C[c].is_active = 1}
    IN IF hit = {} THEN Null ELSE C[CHOOSE c \in hit : TRUE]

\* SELECT * FROM clients WHERE id = ?  (.get)
selectClientById(C, id) == IF id \in DOMAIN C THEN C[id] ELSE Null

\* authenticateClient, from the call to the value its promise resolves to: the
\* row is read once, before the wait for verifySecret
authenticateClient(C, clientId, clientSecret) ==
    LET client == selectActiveClient(C, clientId)
    IN IF client = Null THEN Null
       ELSE IF ~verifySecret(clientSecret, client.client_secret_hash) THEN Null
       ELSE client

\* generateTokens giving the refresh token the lifetime of the access token
generateTokens_sameLifetime(clientId, expiresIn, t, rand) ==
    [accessToken |-> generateAccessToken(clientId, expiresIn, t, rand),
     refreshToken |-> generateRefreshToken(rand + 1),
     expiresAt |-> getExpirationDate(expiresIn, t),
     refreshExpiresAt |-> getExpirationDate(expiresIn, t)]

generateTokens(clientId, expiresIn, t, rand) ==
    [accessToken |-> generateAccessToken(clientId, expiresIn, t, rand),
     refreshToken |-> generateRefreshToken(rand + 1),
     expiresAt |-> getExpirationDate(expiresIn, t),
     refreshExpiresAt |-> getExpirationDate(expiresIn * RefreshFactor, t)]

\* newSessionRow with the two token values bound to each other's column
newSessionRow_swapped(nid, client, accessToken, refreshToken, expiresAt, refreshExpiresAt, t) ==
    [id |-> nid, client_id |-> client.id,
     access_token |-> refreshToken, refresh_token |-> accessToken,
     token_type |-> "Bearer",
     expires_at |-> toISOString(expiresAt),
     refresh_expires_at |-> toISOString(refreshExpiresAt),
     is_revoked |-> 0,
     created_at |-> t \div MsPerSecond]

\* the row INSERT INTO sessions writes (is_revoked and created_at by default)
newSessionRow(nid, client, accessToken, refreshToken, expiresAt, refreshExpiresAt, t) ==
    [id |-> nid, client_id |-> client.id,
     access_token |-> accessToken, refresh_token |-> refreshToken,
     token_type |-> "Bearer",
     expires_at |-> toISOString(expiresAt),
     refresh_expires_at |-> toISOString(refreshExpiresAt),
     is_revoked |-> 0,
     created_at |-> t \div MsPerSecond]

\* insertRefused for a sessions table declared without UNIQUE on the tokens
insertRefused_noUnique(S, C, client, accessToken, refreshToken) ==
    client.id \notin DOMAIN C

\* the INSERT is refused (SqliteError) when access_token or refresh_token is
\* already in the table (UNIQUE) or the client row is gone (FOREIGN KEY)
insertRefused(S, C, client, accessToken, refreshToken) ==
    \/ \E s \in DOMAIN S : S[s].access_token = accessToken
    \/ \E s \in DOMAIN S : S[s].refresh_token = refreshToken
    \/ client.id \notin DOMAIN C

\* saveSession: [threw, sessions]
saveSession(S, C, nid, client, accessToken, refreshToken, expiresAt, refreshExpiresAt, t) ==
    IF insertRefused(S, C, client, accessToken, refreshToken)
    THEN [threw |-> TRUE, sessions |-> S]
    ELSE [threw |-> FALSE,
          sessions |-> [s \in DOMAIN S \cup {nid} |->
              IF s = nid
              THEN newSessionRow(nid, client, accessToken, refreshToken,
                                 expiresAt, refreshExpiresAt, t)
              ELSE S[s]]]

\* TokenResponse with the two token values in each other's field
TokenResponse_swapped(accessToken, refreshToken, expiresIn) ==
    [access_token |-> refreshToken, refresh_token |-> accessToken,
     token_type |-> "Bearer", expires_in |-> expiresIn]

TokenResponse(accessToken, refreshToken, expiresIn) ==
    [access_token |-> accessToken, refresh_token |-> refreshToken,
     token_type |-> "Bearer", expires_in |-> expiresIn]

\* revokeSession with the UPDATE lost
revokeSession_skip(S, sessionId) == S

\* revokeSession flipping the flag instead of setting it
revokeSession_toggle(S, sessionId) ==
    [s \in DOMAIN S |->
        IF s = sessionId THEN [S[s] EXCEPT !.is_revoked = 1 - S[s].is_revoked] ELSE S[s]]

\* UPDATE sessions SET is_revoked = 1 WHERE id = ?
revokeSession(S, sessionId) ==
    [s \in DOMAIN S |-> IF s = sessionId THEN [S[s] EXCEPT !.is_revoked = 1] ELSE S[s]]

\* revokeAllClientSessions with the WHERE clause left out of the UPDATE
revokeAllClientSessions_everyClient(S, clientId) ==
    [s \in DOMAIN S |-> [S[s] EXCEPT !.is_revoked = 1]]

\* UPDATE sessions SET is_revoked = 1 WHERE client_id = ?
revokeAllClientSessions(S, clientId) ==
    [s \in DOMAIN S |->
        IF S[s].client_id = clientId THEN [S[s] EXCEPT !.is_revoked = 1] ELSE S[s]]

\* expiredRows deleting only what is revoked as well
expiredRows_revokedOnly(S, t) ==
    {s \in DOMAIN S : textLess(S[s].expires_at, toISOString(t)) /\ S[s].is_revoked = 1}

\* expiredRows deleting by the expiry of the refresh token
expiredRows_byRefreshExpiry(S, t) ==
    {s \in DOMAIN S : textLess(S[s].refresh_expires_at, toISOString(t))}

\* the rows DELETE FROM sessions WHERE expires_at < ? removes, ? = now as ISO text
expiredRows(S, t) == {s \in DOMAIN S : textLess(S[s].expires_at, toISOString(t))}

\* cleanupExpiredSessions: [sessions, changes]
cleanupExpiredSessions(S, t) ==
    LET gone == expiredRows(S, t)
    IN [sessions |-> [s \in DOMAIN S \ gone |-> S[s]],
        changes |-> Cardinality(gone)]

\* validateAccessToken with "AND is_revoked = 0" left out of the SELECT
validateAccessToken_anyRow(S, accessToken, t) ==
    IF ~verifyToken(accessToken, t)
    THEN [ret |-> Null, storeReads |-> 0]
    ELSE LET hit == {s \in DOMAIN S : S[s].access_token = accessToken}
         IN IF hit = {}
            THEN [ret |-> Null, storeReads |-> 1]
            ELSE LET session == S[CHOOSE s \in hit : TRUE]
                 IN IF parseDate(session.expires_at) < t
                    THEN [ret |-> Null, storeReads |-> 1]
                    ELSE [ret |-> session, storeReads |-> 1]

\* validateAccessToken: [ret, storeReads]; ret is the session row or Null
validateAccessToken(S, accessToken, t) ==
    IF ~verifyToken(accessToken, t)
    THEN [ret |-> Null, storeReads |-> 0]
    ELSE LET hit == {s \in DOMAIN S :
                        S[s].access_token = accessToken /\ S[s].is_revoked = 0}
         IN IF hit = {}
            THEN [ret |-> Null, storeReads |-> 1]
            ELSE LET session == S[CHOOSE s \in hit : TRUE]
                 IN IF parseDate(session.expires_at) < t
                    THEN [ret |-> Null, storeReads |-> 1]
                    ELSE [ret |-> session, storeReads |-> 1]

getClientBySession(C, session) == selectClientById(C, session.client_id)

\* what createTokenResponse does once verifySecret has resolved, for the client
\* row read before the wait: [ret, threw, sessions, inserted]
issueForClient(S, C, client, clientSecret, t, nid, rand) ==
    IF ~verifySecret(clientSecret, client.client_secret_hash)
    THEN [ret |-> Null, threw |-> FALSE, sessions |-> S, inserted |-> FALSE]
    ELSE LET tk == generateTokens(client.client_id, ExpiresIn, t, rand)
             sv == saveSession(S, C, nid, client, tk.accessToken, tk.refreshToken,
                               tk.expiresAt, tk.refreshExpiresAt, t)
         IN IF sv.threw
            THEN [ret |-> Null, threw |-> TRUE, sessions |-> S, inserted |-> FALSE]
            ELSE [ret |-> TokenResponse(tk.accessToken, tk.refreshToken, ExpiresIn),
                  threw |-> FALSE, sessions |-> sv.sessions, inserted |-> TRUE]

\* refreshLookup with "AND is_revoked = 0" left out of the SELECT
refreshLookup_anyRow(S, C, refreshToken, t) ==
    LET hit == {s \in DOMAIN S : S[s].refresh_token = refreshToken}
    IN IF hit = {} THEN Null
       ELSE LET session == S[CHOOSE s \in hit : TRUE]
                client == selectClientById(C, session.client_id)
            IN IF parseDate(session.refresh_expires_at) < t THEN Null
               ELSE IF client = Null THEN Null
               ELSE IF client.is_active # 1 THEN Null
               ELSE session

\* refreshLookup with the client's is_active left unread
refreshLookup_anyClient(S, C, refreshToken, t) ==
    LET hit == {s \in DOMAIN S :
                   S[s].refresh_token = refreshToken /\ S[s].is_revoked = 0}
    IN IF hit = {} THEN Null
       ELSE LET session == S[CHOOSE s \in hit : TRUE]
                client == selectClientById(C, session.client_id)
            IN IF parseDate(session.refresh_expires_at) < t THEN Null
               ELSE IF client = Null THEN Null
               ELSE session

\* the session refreshAccessToken accepts for a refresh token, or Null
refreshLookup(S, C, refreshToken, t) ==
    LET hit == {s \in DOMAIN S :
                   S[s].refresh_token = refreshToken /\ S[s].is_revoked = 0}
    IN IF hit = {} THEN Null
       ELSE LET session == S[CHOOSE s \in hit : TRUE]
                client == selectClientById(C, session.client_id)
            IN IF parseDate(session.refresh_expires_at) < t THEN Null
               ELSE IF client = Null THEN Null
               ELSE IF client.is_active # 1 THEN Null
               ELSE session

\* refreshAccessToken storing the replacement and leaving the session it
\* looked up as it was
refreshAccessToken_keepsOld(S, C, refreshToken, t, nid, rand) ==
    LET session == refreshLookup(S, C, refreshToken, t)
    IN IF session = Null
       THEN [ret |-> Null, threw |-> FALSE, sessions |-> S, inserted |-> FALSE]
       ELSE LET client == selectClientById(C, session.client_id)
                tk == generateTokens(client.client_id, ExpiresIn, t, rand)
                sv == saveSession(S, C, nid, client, tk.accessToken, tk.refreshToken,
                                  tk.expiresAt, tk.refreshExpiresAt, t)
            IN IF sv.threw
               THEN [ret |-> Null, threw |-> TRUE, sessions |-> S, inserted |-> FALSE]
               ELSE [ret |-> TokenResponse(tk.accessToken, tk.refreshToken, ExpiresIn),
                     threw |-> FALSE, sessions |-> sv.sessions, inserted |-> TRUE]

\* refreshAccessToken: [ret, threw, sessions, inserted]
refreshAccessToken(S, C, refreshToken, t, nid, rand) ==
    LET session == refreshLookup(S, C, refreshToken, t)
    IN IF session = Null
       THEN [ret |-> Null, threw |-> FALSE, sessions |-> S, inserted |-> FALSE]
       ELSE LET client == selectClientById(C, session.client_id)
                S1 == revokeSession(S, session.id)
                tk == generateTokens(client.client_id, ExpiresIn, t, rand)
                sv == saveSession(S1, C, nid, client, tk.accessToken, tk.refreshToken,
                                  tk.expiresAt, tk.refreshExpiresAt, t)
            IN IF sv.threw
               THEN [ret |-> Null, threw |-> TRUE, sessions |-> S1, inserted |-> FALSE]
               ELSE [ret |-> TokenResponse(tk.accessToken, tk.refreshToken, ExpiresIn),
                     threw |-> FALSE, sessions |-> sv.sessions, inserted |-> TRUE]

----------------------------------------------------------------------------
(* HTTP responses *)

Response(status, error, body) == [status |-> status, error |-> error, body |-> body]

\* what both /auth/token and /auth/refresh answer once the service call settled;
\* the body of an error response is its error_description
settle(r, failure, description) ==
    IF r.threw THEN Response(500, "server_error", "An unexpected error occurred")
    ELSE IF r.ret = Null THEN Response(401, failure, description)
    ELSE Response(200, "", r.ret)

----------------------------------------------------------------------------
(* AuthController.token: POST /auth/token *)

\* token with an answer of its own for a client_id that no active row has
token_namesCause(C, client_id, client_secret, grant_type) ==
    IF client_id = "" \/ client_secret = <<>> \/ grant_type = ""
    THEN [wait |-> FALSE, client |-> Null,
          response |-> Response(400, "invalid_request",
              "Missing required parameters: client_id, client_secret, grant_type")]
    ELSE IF grant_type # "client_credentials"
    THEN [wait |-> FALSE, client |-> Null,
          response |-> Response(400, "unsupported_grant_type",
              "Only client_credentials grant type is supported")]
    ELSE LET client == selectActiveClient(C, client_id)
         IN IF client = Null
            THEN [wait |-> FALSE, client |-> Null,
                  response |-> Response(401, "invalid_client", "Client not found")]
            ELSE [wait |-> TRUE, client |-> client, response |-> Null]

\* token with the grant type examined before the presence of the three fields
token_grantFirst(C, client_id, client_secret, grant_type) ==
    IF grant_type # "client_credentials"
    THEN [wait |-> FALSE, client |-> Null,
          response |-> Response(400, "unsupported_grant_type",
              "Only client_credentials grant type is supported")]
    ELSE IF client_id = "" \/ client_secret = <<>>
    THEN [wait |-> FALSE, client |-> Null,
          response |-> Response(400, "invalid_request",
              "Missing required parameters: client_id, client_secret, grant_type")]
    ELSE LET client == selectActiveClient(C, client_id)
         IN IF client = Null
            THEN [wait |-> FALSE, client |-> Null,
                  response |-> Response(401, "invalid_client", "Client authentication failed")]
            ELSE [wait |-> TRUE, client |-> client, response |-> Null]

\* The handler up to the first real wait: the body checks, then
\* createTokenResponse -> authenticateClient reads the client row and starts
\* verifySecret.  [wait, client, response]
token(C, client_id, client_secret, grant_type) ==
    IF client_id = "" \/ client_secret = <<>> \/ grant_type = ""
    THEN [wait |-> FALSE, client |-> Null,
          response |-> Response(400, "invalid_request",
              "Missing required parameters: client_id, client_secret, grant_type")]
    ELSE IF grant_type # "client_credentials"
    THEN [wait |-> FALSE, client |-> Null,
          response |-> Response(400, "unsupported_grant_type",
              "Only client_credentials grant type is supported")]
    ELSE LET client == selectActiveClient(C, client_id)
         IN IF client = Null
            THEN [wait |-> FALSE, client |-> Null,
                  response |-> Response(401, "invalid_client", "Client authentication failed")]
            ELSE [wait |-> TRUE, client |-> client, response |-> Null]

\* verifySecret resolved: the rest of authenticateClient, createTokenResponse and
\* the handler, none of which waits again.
\* [ret, threw, sessions, inserted, response]
tokenVerified(S, C, call, t, nid, rand) ==
    LET r == issueForClient(S, C, call.client, call.secret, t, nid, rand)
    IN [ret |-> r.ret, threw |-> r.threw, sessions |-> r.sessions,
        inserted |-> r.inserted, response |-> settle(r, "invalid_client", "Client authentication failed")]

----------------------------------------------------------------------------
(* AuthController.refresh: POST /auth/refresh *)

\* The whole handler: refreshAccessToken has no wait in it, and the handler's
\* await of its settled promise lets no other request in.
\* [ret, threw, sessions, inserted, response]
refresh(S, C, refresh_token, grant_type, t, nid, rand) ==
    LET early(error, description) ==
            [ret |-> Null, threw |-> FALSE, sessions |-> S,
             inserted |-> FALSE, response |-> Response(400, error, description)]
    IN IF refresh_token = noToken \/ grant_type = ""
       THEN early("invalid_request", "Missing required parameters: refresh_token, grant_type")
       ELSE IF grant_type # "refresh_token"
       THEN early("unsupported_grant_type", "Only refresh_token grant type is supported")
       ELSE LET r == refreshAccessToken(S, C, refresh_token, t, nid, rand)
            IN [ret |-> r.ret, threw |-> r.threw, sessions |-> r.sessions,
                inserted |-> r.inserted, response |-> settle(r, "invalid_grant", "Invalid or expired refresh token")]

----------------------------------------------------------------------------
(* AuthController.revoke: POST /auth/revoke *)

\* revoke answering 200 with the session left as it is
revoke_forgets(S, bodyToken, t) ==
    IF bodyToken = noToken
    THEN [sessions |-> S,
          response |-> Response(400, "invalid_request", "Missing required parameter: token")]
    ELSE [sessions |-> S, response |-> Response(200, "", "Token revoked successfully")]

\* revoke answering 404 when the token validates to no session
revoke_reportsMiss(S, bodyToken, t) ==
    IF bodyToken = noToken
    THEN [sessions |-> S,
          response |-> Response(400, "invalid_request", "Missing required parameter: token")]
    ELSE LET session == validateAccessToken(S, bodyToken, t).ret
         IN IF session # Null
            THEN [sessions |-> revokeSession(S, session.id),
                  response |-> Response(200, "", "Token revoked successfully")]
            ELSE [sessions |-> S, response |-> Response(404, "not_found", "Token not found")]

\* [sessions, response]
revoke(S, bodyToken, t) ==
    IF bodyToken = noToken
    THEN [sessions |-> S,
          response |-> Response(400, "invalid_request", "Missing required parameter: token")]
    ELSE LET session == validateAccessToken(S, bodyToken, t).ret
         IN [sessions |-> IF session # Null THEN revokeSession(S, session.id) ELSE S,
             response |-> Response(200, "", "Token revoked successfully")]

----------------------------------------------------------------------------
(* middleware/authentication.ts *)

Absent == [present |-> FALSE, parts |-> <<>>]
Header(parts) == [present |-> TRUE, parts |-> parts]

\* authMiddleware with the scheme of the header left unread
authMiddleware_anyScheme(S, C, authHeader, t) ==
    LET deny(description) ==
            [next |-> FALSE, client |-> Null,
             response |-> Response(401, "unauthorized", description)]
    IN IF ~authHeader.present
       THEN deny("No authorization header provided")
       ELSE IF Len(authHeader.parts) # 2
       THEN deny("Invalid authorization header format. Expected: Bearer <token>")
       ELSE LET session == validateAccessToken(S, authHeader.parts[2], t).ret
            IN IF session = Null
               THEN deny("Invalid or expired access token")
               ELSE LET client == getClientBySession(C, session)
                    IN IF client = Null
                       THEN deny("Client not found or inactive")
                       ELSE [next |-> TRUE, client |-> client, response |-> Null]

\* [next, client, response]: next() is called with req.client set, or a 401 is sent
authMiddleware(S, C, authHeader, t) ==
    LET deny(description) ==
            [next |-> FALSE, client |-> Null,
             response |-> Response(401, "unauthorized", description)]
    IN IF ~authHeader.present
       THEN deny("No authorization header provided")
       ELSE IF Len(authHeader.parts) # 2 \/ authHeader.parts[1] # "Bearer"
       THEN deny("Invalid authorization header format. Expected: Bearer <token>")
       ELSE LET session == validateAccessToken(S, authHeader.parts[2], t).ret
            IN IF session = Null
               THEN deny("Invalid or expired access token")
               ELSE LET client == getClientBySession(C, session)
                    IN IF client = Null
                       THEN deny("Client not found or inactive")
                       ELSE [next |-> TRUE, client |-> client, response |-> Null]

----------------------------------------------------------------------------
(* Integration configuration: config/integrations.ts *)

\* the value of a property read that finds nothing
Undefined == [undefined |-> TRUE]

\* The names every object literal inherits from Object.prototype (some of
\* them): obj[name] yields the inherited function or object, a truthy value
\* that has none of the properties a configuration has
ObjectPrototypeKeys == {"constructor", "toString", "__proto__"}
Inherited(key) == [inherited |-> key]

\* obj[key] for an object literal obj
property(obj, key) ==
    IF key \in DOMAIN obj THEN obj[key]
    ELSE IF key \in ObjectPrototypeKeys THEN Inherited(key)
    ELSE Undefined

\* the value has a property of that name
hasField(value, name) == name \in DOMAIN value

Lit(text) == [lit |-> text]
Param(key) == [param |-> key]

defaultIntegrations ==
    [n \in {"booking_engine", "pms_system", "channel_manager"} |->
        CASE n = "booking_engine" ->
                 [name |-> "Booking Engine", enabled |-> TRUE,
                  baseUrl |-> "https://api.booking-engine.example.com",
                  auth |-> [type |-> "api_key"],
                  endpoints |->
                      [e \in {"createReservation", "getReservation",
                              "updateReservation", "cancelReservation"} |->
                          CASE e = "createReservation" ->
                                   [path |-> <<Lit("v1"), Lit("reservations")>>,
                                    method |-> "POST",
                                    transformer |-> "BookingReservationTransformer"]
                            [] e = "getReservation" ->
                                   [path |-> <<Lit("v1"), Lit("reservations"), Param("id")>>,
                                    method |-> "GET"]
                            [] e = "updateReservation" ->
                                   [path |-> <<Lit("v1"), Lit("reservations"), Param("id")>>,
                                    method |-> "PUT",
                                    transformer |-> "BookingReservationTransformer"]
                            [] OTHER ->
                                   [path |-> <<Lit("v1"), Lit("reservations"), Param("id")>>,
                                    method |-> "DELETE"]],
                  timeout |-> 30000, retries |-> 3]
          [] n = "pms_system" ->
                 [name |-> "PMS System", enabled |-> TRUE,
                  baseUrl |-> "https://api.pms.example.com",
                  auth |-> [type |-> "bearer"],
                  endpoints |->
                      [e \in {"syncGuest", "syncReservation", "updateRoom"} |->
                          CASE e = "syncGuest" ->
                                   [path |-> <<Lit("api"), Lit("guests")>>,
                                    method |-> "POST",
                                    transformer |-> "PMSGuestTransformer"]
                            [] e = "syncReservation" ->
                                   [path |-> <<Lit("api"), Lit("reservations")>>,
                                    method |-> "POST",
                                    transformer |-> "PMSReservationTransformer"]
                            [] OTHER ->
                                   [path |-> <<Lit("api"), Lit("rooms"), Param("id")>>,
                                    method |-> "PUT"]],
                  timeout |-> 20000, retries |-> 2]
          [] OTHER ->
                 [name |-> "Channel Manager", enabled |-> FALSE,
                  baseUrl |-> "https://api.channelmanager.example.com",
                  auth |-> [type |-> "oauth2"],
                  endpoints |->
                      [e \in {"updateAvailability", "updatePricing"} |->
                          IF e = "updateAvailability"
                          THEN [path |-> <<Lit("v1"), Lit("availability")>>, method |-> "POST"]
                          ELSE [path |-> <<Lit("v1"), Lit("pricing")>>, method |-> "POST"]],
                  timeout |-> 15000, retries |-> 3]]

getIntegration(name) == property(defaultIntegrations, name)

\* integration?.enabled || false
isEnabled(name) ==
    LET integration == getIntegration(name)
    IN hasField(integration, "enabled") /\ integration.enabled

\* integration?.endpoints[endpointName]: [threw, value]; reading a property
\* of an endpoints that is undefined is a TypeError
getEndpoint(integrationName, endpointName) ==
    LET integration == getIntegration(integrationName)
    IN IF integration = Undefined THEN [threw |-> FALSE, value |-> Undefined]
       ELSE IF ~hasField(integration, "endpoints") THEN [threw |-> TRUE, value |-> Undefined]
       ELSE [threw |-> FALSE, value |-> property(integration.endpoints, endpointName)]

\* encodeURIComponent, on the parameter values requests are made with
encodeURIComponent(value) ==
    CASE value = "a/b" -> "a%2Fb"
      [] OTHER -> value

RECURSIVE replaceFirst(_, _, _)
\* path.replace(`{${key}}`, value): the first occurrence only
replaceFirst(path, key, value) ==
    IF path = <<>> THEN <<>>
    ELSE IF Head(path) = Param(key) THEN <<Lit(value)>> \o Tail(path)
    ELSE <<Head(path)>> \o replaceFirst(Tail(path), key, value)

RECURSIVE replaceAll(_, _)
\* Object.entries(params).forEach(([key, value]) => ...); params is the
\* sequence of its <<key, value>> entries
replaceAll(path, params) ==
    IF params = <<>> THEN path
    ELSE replaceAll(replaceFirst(path, Head(params)[1], encodeURIComponent(Head(params)[2])),
                    Tail(params))

\* buildUrl: [threw, url]; url is Null, or [baseUrl, path].  An endpoint value
\* without a path makes path.replace a TypeError when there is a parameter,
\* and the text "undefined" after the base URL when there is none
buildUrl(integrationName, endpointName, params) ==
    LET integration == getIntegration(integrationName)
        endpoint == getEndpoint(integrationName, endpointName)
    IN IF integration = Undefined \/ endpoint.value = Undefined
       THEN [threw |-> endpoint.threw, url |-> Null]
       ELSE IF ~hasField(endpoint.value, "path")
       THEN IF params # <<>>
            THEN [threw |-> TRUE, url |-> Null]
            ELSE [threw |-> FALSE,
                  url |-> [baseUrl |-> integration.baseUrl, path |-> <<Lit("undefined")>>]]
       ELSE [threw |-> FALSE,
             url |-> [baseUrl |-> integration.baseUrl,
                      path |-> replaceAll(endpoint.value.path, params)]]

----------------------------------------------------------------------------
(* Transformers: transformers/baseTransformer.ts, transformers/registry.ts *)

Str(text) == [type |-> "string", text |-> text]
Num(n) == [type |-> "number", n |-> n]
\* a string new Date() parses, to the instant it parses to
DateStr(instant) == [type |-> "string", text |-> "date", instant |-> instant]
\* a string of characters, for the values that are matched character by character
Chars(seq) == [type |-> "string", chars |-> seq]

\* !value, for a value of a payload
falsy(value) ==
    \/ value = Undefined
    \/ value = Null
    \/ value = Str("")
    \/ value = Num(0)
    \/ value = Chars(<<>>)

\* input[field]
field(input, name) == IF name \in DOMAIN input THEN input[name] ELSE Undefined

\* the transformers initializeTransformers registers
Registered == {"BookingReservationTransformer"}

\* /^[^\s@]+@[^\s@]+\.[^\s@]+$/.test(value)
emailRegexTest(value) ==
    /\ hasField(value, "chars")
    /\ LET c == value.chars
           plain(i, j) == /\ i <= j
                          /\ \A k \in i..j : c[k] \notin {" ", "@"}
       IN \E at \in 1..Len(c), dot \in 1..Len(c) :
              /\ c[at] = "@"
              /\ c[dot] = "."
              /\ plain(1, at - 1)
              /\ plain(at + 1, dot - 1)
              /\ plain(dot + 1, Len(c))

\* BaseTransformer.parseDate: [valid, instant]; not valid is the null it returns
transformerParseDate(value) ==
    IF falsy(value) \/ ~hasField(value, "instant")
    THEN [valid |-> FALSE, instant |-> 0]
    ELSE [valid |-> TRUE, instant |-> value.instant]

requiredFields ==
    <<"reservationId", "guestName", "guestEmail", "checkInDate", "checkOutDate",
      "roomType", "numberOfGuests", "totalAmount">>

\* BookingReservationTransformer.validate: [ok, threw, message]
validate(input) ==
    LET missing == {i \in 1..Len(requiredFields) : falsy(field(input, requiredFields[i]))}
        reject(message) == [ok |-> FALSE, threw |-> TRUE, message |-> message]
    IN IF input = Undefined \/ input = Null
       THEN [ok |-> FALSE, threw |-> FALSE, message |-> <<>>]
       ELSE IF missing # {}
       THEN reject(<<"Required field missing:",
                     requiredFields[CHOOSE i \in missing : \A j \in missing : i <= j]>>)
       ELSE IF ~emailRegexTest(input.guestEmail)
       THEN reject(<<"Invalid email format">>)
       ELSE LET checkIn == transformerParseDate(input.checkInDate)
                checkOut == transformerParseDate(input.checkOutDate)
            IN IF ~checkIn.valid \/ ~checkOut.valid
               THEN reject(<<"Invalid date format">>)
               ELSE IF checkOut.instant <= checkIn.instant
               THEN reject(<<"Check-out date must be after check-in date">>)
               ELSE [ok |-> TRUE, threw |-> FALSE, message |-> <<>>]

\* cleanPhone: [threw, value]; phone.replace exists on strings only
cleanPhone(phone) ==
    IF falsy(phone) THEN [threw |-> FALSE, value |-> Chars(<<>>)]
    ELSE IF ~hasField(phone, "chars") THEN [threw |-> TRUE, value |-> Undefined]
    ELSE [threw |-> FALSE,
          value |-> Chars(SelectSeq(phone.chars,
              LAMBDA ch : ch \in {"0", "1", "2", "3", "4", "5", "6", "7", "8", "9", "+"}))]

\* formatDate: [threw, value]; new Date(date).toISOString() is a RangeError
\* for a text that is no date
formatDate(date) ==
    IF falsy(date) THEN [threw |-> FALSE, value |-> Str("")]
    ELSE IF ~hasField(date, "instant") THEN [threw |-> TRUE, value |-> Undefined]
    ELSE [threw |-> FALSE, value |-> [type |-> "string", iso |-> date.instant]]

\* BookingReservationTransformer.transform: [threw, message, output]
transform(input) ==
    LET phone == cleanPhone(field(input, "guestPhone"))
        checkIn == formatDate(field(input, "checkInDate"))
        checkOut == formatDate(field(input, "checkOutDate"))
    IN IF input = Undefined \/ input = Null
       THEN [threw |-> TRUE,
             message |-> <<"Cannot read properties of undefined (reading 'reservationId')">>,
             output |-> Undefined]
       ELSE IF phone.threw
       THEN [threw |-> TRUE, message |-> <<"phone.replace is not a function">>,
             output |-> Undefined]
       ELSE IF checkIn.threw \/ checkOut.threw
       THEN [threw |-> TRUE, message |-> <<"Invalid time value">>, output |-> Undefined]
       ELSE [threw |-> FALSE, message |-> <<>>,
             output |-> [reservation_id |-> field(input, "reservationId"),
                         guest |-> [name |-> field(input, "guestName"),
                                    email |-> field(input, "guestEmail"),
                                    phone |-> phone.value],
                         stay |-> [check_in |-> checkIn.value,
                                   check_out |-> checkOut.value,
                                   room_type |-> field(input, "roomType"),
                                   guests |-> field(input, "numberOfGuests")],
                         payment |-> [total |-> field(input, "totalAmount"),
                                      currency |-> field(input, "currency")],
                         status |-> field(input, "status"),
                         notes |-> field(input, "specialRequests")]]

\* execute with the mapping entered before the validator is asked
execute_mapsFirst(input) ==
    LET m == transform(input)
        v == validate(input)
    IN IF m.threw
       THEN [threw |-> TRUE, message |-> m.message, output |-> Undefined,
             trace |-> <<"transform">>]
       ELSE IF v.threw \/ ~v.ok
       THEN [threw |-> TRUE,
             message |-> IF v.threw THEN v.message ELSE <<"Input validation failed">>,
             output |-> Undefined, trace |-> <<"transform", "validate">>]
       ELSE [threw |-> FALSE, message |-> <<>>, output |-> m.output,
             trace |-> <<"transform", "validate">>]

\* BaseTransformer.execute: [threw, message, output, trace]; trace lists the
\* methods of the transformer entered, in order.  The catch block rethrows the
\* error it caught, unless JSON.stringify(input) is undefined (input is
\* undefined), when reading .substring of it is the error that leaves
execute(input) ==
    LET v == validate(input)
        caught(message, trace) ==
            [threw |-> TRUE,
             message |-> IF input = Undefined
                         THEN <<"Cannot read properties of undefined (reading 'substring')">>
                         ELSE message,
             output |-> Undefined, trace |-> trace]
    IN IF v.threw THEN caught(v.message, <<"validate">>)
       ELSE IF ~v.ok THEN caught(<<"Input validation failed">>, <<"validate">>)
       ELSE LET m == transform(input)
            IN IF m.threw THEN caught(m.message, <<"validate", "transform">>)
               ELSE [threw |-> FALSE, message |-> <<>>, output |-> m.output,
                     trace |-> <<"validate", "transform">>]

\* TransformerRegistry.transform: [threw, message, output, trace]
registryTransform(transformerName, input) ==
    IF transformerName \notin Registered
    THEN [threw |-> TRUE, message |-> <<"Transformer", transformerName, "not found">>,
          output |-> Undefined, trace |-> <<>>]
    ELSE execute(input)

----------------------------------------------------------------------------
(* HttpClient: services/httpClient.ts *)

NoCall == [none |-> TRUE]

\* new HttpClient(options), as far as it can throw: [threw, message]
createHttpClient(integrationName) ==
    LET integration == getIntegration(integrationName)
    IN IF integration = Undefined
       THEN [threw |-> TRUE, message |-> <<"Integration", integrationName, "not found">>]
       ELSE IF ~hasField(integration, "auth")
       THEN [threw |-> TRUE,
             message |-> <<"Cannot read properties of undefined (reading 'headers')">>]
       ELSE [threw |-> FALSE, message |-> <<>>]

\* an outbound call handed to axios
Outbound(integrationName, method, urlPath, data) ==
    [integration |-> integrationName, method |-> method, urlPath |-> urlPath, data |-> data]

\* callEndpoint up to the call of axios: [threw, message, call]
callEndpoint(integrationName, endpointName, data, params) ==
    LET endpoint == getEndpoint(integrationName, endpointName)
        url == buildUrl(integrationName, endpointName, params)
        fail(message) == [threw |-> TRUE, message |-> message, call |-> NoCall]
    IN IF endpoint.threw
       THEN fail(<<"Cannot read properties of undefined (reading '", endpointName, "')">>)
       ELSE IF endpoint.value = Undefined
       THEN fail(<<"Endpoint", endpointName, "not found in integration", integrationName>>)
       ELSE IF url.threw
       THEN fail(<<"Cannot read properties of undefined (reading 'replace')">>)
       ELSE IF url.url = Null
       THEN fail(<<"Could not build URL for endpoint", endpointName>>)
       ELSE LET method == IF hasField(endpoint.value, "method") THEN endpoint.value.method ELSE "GET"
                sent == IF method \in {"POST", "PUT", "PATCH"} THEN data ELSE Undefined
            IN IF method \notin {"GET", "POST", "PUT", "PATCH", "DELETE"}
               THEN fail(<<"Unsupported HTTP method:", method>>)
               ELSE [threw |-> FALSE, message |-> <<>>,
                     call |-> Outbound(integrationName, method, url.url.path, sent)]

----------------------------------------------------------------------------
(* IntegrationManager.getAuthHeaders and the HttpClient constructor, for any
   IntegrationConfig.  Header values and credentials are sequences of
   strings; <<>> is the empty string. *)

NoHeaders == [h \in {} |-> <<>>]

\* headers[name] = value
setHeader(headers, name, value) ==
    [k \in DOMAIN headers \cup {name} |-> IF k = name THEN value ELSE headers[k]]

\* credentials?.<key>, "" when there is none (both are falsy)
credential(auth, key) ==
    IF hasField(auth, "credentials") /\ hasField(auth.credentials, key)
    THEN auth.credentials[key] ELSE <<>>

\* Buffer.from(text).toString('base64')
base64(text) == <<"base64">> \o text

\* getAuthHeaders, for the configuration getIntegration returned
getAuthHeaders(integration) ==
    IF integration = Undefined THEN NoHeaders
    ELSE LET auth == integration.auth
             headers == IF hasField(auth, "headers") THEN auth.headers ELSE NoHeaders
             bearer == credential(auth, "token")
             username == credential(auth, "username")
             password == credential(auth, "password")
             apiKey == credential(auth, "apiKey")
         IN CASE auth.type = "bearer" ->
                     IF bearer # <<>>
                     THEN setHeader(headers, "Authorization", <<"Bearer ">> \o bearer)
                     ELSE headers
              [] auth.type = "basic" ->
                     IF username # <<>> /\ password # <<>>
                     THEN setHeader(headers, "Authorization",
                                    <<"Basic ">> \o base64(username \o <<":">> \o password))
                     ELSE headers
              [] auth.type = "api_key" ->
                     IF apiKey # <<>>
                        /\ ~("X-API-Key" \in DOMAIN headers /\ headers["X-API-Key"] # <<>>)
                     THEN setHeader(headers, "X-API-Key", apiKey)
                     ELSE headers
              [] OTHER -> headers

\* the retries the constructor hands to axiosRetry:
\* options.retries !== undefined ? options.retries : integration.retries || 3
retries(options, integration) ==
    IF hasField(options, "retries") THEN options.retries
    ELSE IF hasField(integration, "retries") /\ integration.retries # 0
    THEN integration.retries
    ELSE 3

\* an HttpClient: its configuration, the headers of its axios instance that
\* getAuthHeaders gave, and its retries
HttpClient(options, integration) ==
    [integration |-> integration, options |-> options,
     headers |-> getAuthHeaders(integration),
     retries |-> retries(options, integration)]

\* the methods axios-retry calls idempotent
IdempotentMethods == {"GET", "HEAD", "OPTIONS", "PUT", "DELETE"}

\* how an attempt ends: with a response, or with an error code and no
\* response (status 0): a broken connection, or the timeout of the instance
Answer(status) == [status |-> status, code |-> ""]
NetworkError(code) == [status |-> 0, code |-> code]

\* axios resolves a response whose status validateStatus accepts (2xx)
resolved(outcome) == outcome.status \in 200..299

\* axiosRetry.isNetworkOrIdempotentRequestError(error), of the axios-retry
\* package: the values it can return.  An error without a response is
\* retryable unless it is the timeout; one with a response is retryable for
\* an idempotent method and a 5xx status; for status 429 the releases of the
\* package differ.
isNetworkOrIdempotentRequestError(method, outcome) ==
    IF outcome.status = 0 THEN {outcome.code # "ECONNABORTED"}
    ELSE IF method \notin IdempotentMethods THEN {FALSE}
    ELSE IF outcome.status \in 500..599 THEN {TRUE}
    ELSE IF outcome.status = 429 THEN BOOLEAN
    ELSE {FALSE}

\* retryCondition of the constructor: the values it can return for the error
\* of a rejected attempt
retryCondition(method, outcome) ==
    {library \/ outcome.status >= 500 :
        library \in isNetworkOrIdempotentRequestError(method, outcome)}

\* the clients of the model: one constructed with any options for any
\* configuration, and one that forward constructs meanwhile
HttpSlots == {"any", "forward"}

----------------------------------------------------------------------------
(* Webhooks: WebhookController and IntegrationManager.validateWebhookSignature,
   for any IntegrationConfig.

   A JSON text is the value it is the JSON of and the way it is written:
   compact, as JSON.stringify writes it, or with white space between its
   tokens.  A string (a secret, a signature) is its content, its length and
   the position of a character that was replaced (0: none). *)

Text(value, spacing) == [value |-> value, spacing |-> spacing]

\* express.json(): req.body of a request with that raw body
JSONparse(text) == text.value

\* JSON.stringify(value)
JSONstringify(value) == Text(value, "compact")

\* crypto.createHmac('sha256', secret).update(payload).digest('hex')
hmacHex(secret, payload) == [text |-> <<secret, payload>>, length |-> 64, changed |-> 0]

\* a string that is no digest
Plain(text, length) == [text |-> <<text>>, length |-> length, changed |-> 0]

\* the string with its character at position i replaced by another
flip(provided, i) == [provided EXCEPT !.changed = i]
\* the string without its last character
cut(provided) == [provided EXCEPT !.length = @ - 1]
EmptyString == [text |-> <<>>, length |-> 0, changed |-> 0]
NoSignature == Undefined

\* crypto.timingSafeEqual(Buffer.from(a), Buffer.from(b)): [threw, value];
\* it throws a RangeError when the byte lengths differ, and Buffer.from throws
\* a TypeError for undefined
timingSafeEqual(a, b) ==
    IF a = Undefined \/ b = Undefined \/ a.length # b.length
    THEN [threw |-> TRUE, value |-> FALSE]
    ELSE [threw |-> FALSE, value |-> a = b]

\* config?.webhooks
webhooks(config) ==
    IF config # Undefined /\ hasField(config, "webhooks") THEN config.webhooks ELSE Undefined

\* config?.webhooks?.secret, undefined when absent; the empty string is falsy
webhookSecret(config) ==
    IF webhooks(config) # Undefined /\ hasField(webhooks(config), "secret")
    THEN webhooks(config).secret ELSE Undefined

\* a string that is undefined or empty is falsy
truthy(string) == string # Undefined /\ string # EmptyString

\* IntegrationManager.validateWebhookSignature, for the configuration
\* getIntegration returned: [threw, value]
validateWebhookSignature(config, payload, provided) ==
    LET secret == webhookSecret(config)
    IN IF ~truthy(secret) THEN [threw |-> FALSE, value |-> FALSE]
       ELSE timingSafeEqual(provided, hmacHex(secret, payload))

\* WebhookController.validateSignature: what timingSafeEqual throws is caught
\* and false is returned; createHmac throws for a secret that is undefined
validateSignature(payload, provided, secret) ==
    IF secret = Undefined THEN [threw |-> FALSE, value |-> FALSE]
    ELSE [threw |-> FALSE, value |-> timingSafeEqual(provided, hmacHex(secret, payload)).value]

\* integration?.enabled || false, for the configuration getIntegration returned
enabled(config) == hasField(config, "enabled") /\ config.enabled

\* the answer of a webhook route: the response, whether validateSignature
\* was called, and whether processWebhook was
Hooked(status, error, verified, processed) ==
    [status |-> status, error |-> error, verified |-> verified, processed |-> processed]

\* 'if (secret && signature)' of both handlers: [verified, rejected]
signatureCheck_requiresHeader(config, provided, body) ==
    LET secret == webhookSecret(config)
    IN IF truthy(secret)
       THEN [verified |-> TRUE,
             rejected |-> ~validateSignature(JSONstringify(body), provided, secret).value]
       ELSE [verified |-> FALSE, rejected |-> FALSE]

signatureCheck(config, provided, body) ==
    LET secret == webhookSecret(config)
    IN IF truthy(secret) /\ truthy(provided)
       THEN [verified |-> TRUE,
             rejected |-> ~validateSignature(JSONstringify(body), provided, secret).value]
       ELSE [verified |-> FALSE, rejected |-> FALSE]

\* WebhookController.receive, POST /webhooks/:integration
receive(config, provided, body) ==
    IF ~enabled(config) THEN Hooked(404, "integration_not_found", FALSE, FALSE)
    ELSE IF ~(webhooks(config) # Undefined /\ webhooks(config).enabled)
    THEN Hooked(400, "webhooks_disabled", FALSE, FALSE)
    ELSE LET check == signatureCheck(config, provided, body)
         IN IF check.rejected THEN Hooked(401, "invalid_signature", TRUE, FALSE)
            ELSE Hooked(200, "", check.verified, TRUE)

\* receiveEvent with the allow-list left unread
receiveEvent_anyEvent(config, event, provided, body) ==
    IF ~enabled(config) THEN Hooked(404, "integration_not_found", FALSE, FALSE)
    ELSE LET check == signatureCheck(config, provided, body)
         IN IF check.rejected THEN Hooked(401, "invalid_signature", TRUE, FALSE)
            ELSE Hooked(200, "", check.verified, TRUE)

\* WebhookController.receiveEvent, POST /webhooks/:integration/:event
receiveEvent(config, event, provided, body) ==
    IF ~enabled(config) THEN Hooked(404, "integration_not_found", FALSE, FALSE)
    ELSE IF webhooks(config) # Undefined /\ hasField(webhooks(config), "events")
            /\ event \notin webhooks(config).events
    THEN Hooked(400, "event_not_allowed", FALSE, FALSE)
    ELSE LET check == signatureCheck(config, provided, body)
         IN IF check.rejected THEN Hooked(401, "invalid_signature", TRUE, FALSE)
            ELSE Hooked(200, "", check.verified, TRUE)

NoHook == [route |-> ""]

----------------------------------------------------------------------------
(* What BaseTransformer.execute writes: transformers/baseTransformer.ts,
   utils/logger.ts.  Every item of a log entry is a record. *)

\* Object.keys(value || {}): the own property names of an object, none for a
\* value that is falsy
ObjectKeys(value) ==
    IF falsy(value) \/ ~hasField(value, "object") THEN {}
    ELSE DOMAIN value \ {"object"}

\* an array of property names
Names(keys) == [type |-> "array", names |-> keys]

\* error.message
Message(parts) == [type |-> "string", parts |-> parts]

\* text.substring(0, end): the first `end` characters of the text
substring(text, end) == [type |-> "string", of |-> text, first |-> end]

\* logger.info / logger.error('Data Transformation', {transformer, status, ...meta})
logTransformation(transformer, status, meta) ==
    [transformer |-> Message(<<transformer>>), status |-> Message(<<status>>)] @@ meta

\* the entries one call of execute writes.  On the failure path the arguments
\* of logTransformation are evaluated first: JSON.stringify(undefined) is
\* undefined and reading .substring of it throws before anything is written
executeLog(name, input) ==
    LET r == execute(input)
    IN IF ~r.threw
       THEN <<logTransformation(name, "success",
                  [inputKeys |-> Names(ObjectKeys(input)),
                   outputKeys |-> Names(ObjectKeys([object |-> TRUE] @@ r.output))])>>
       ELSE IF input = Undefined THEN <<>>
       ELSE <<logTransformation(name, "error",
                  [error |-> Message(r.message),
                   input |-> substring(JSONstringify(input), 500)])>>

NoLog == [entries |-> <<>>]

----------------------------------------------------------------------------
(* ProxyController: controllers/proxyController.ts *)

NotFound(error, message) == [status |-> 404, error |-> error, message |-> message]

ProxyError(status, message, details) ==
    [status |-> status, error |-> "proxy_error", message |-> message, details |-> details]

\* forward up to its wait for the upstream answer: [response, call, trace];
\* response is Null while the call is awaited
forward(integration, endpoint, body, query) ==
    LET done(response, trace) == [response |-> response, call |-> NoCall, trace |-> trace]
        send(data, trace) ==
            LET client == createHttpClient(integration)
                c == callEndpoint(integration, endpoint, data, query)
            IN IF client.threw THEN done(ProxyError(500, client.message, Null), trace)
               ELSE IF c.threw THEN done(ProxyError(500, c.message, Null), trace)
               ELSE [response |-> Null, call |-> c.call, trace |-> trace]
    IN IF ~isEnabled(integration)
       THEN done(NotFound("integration_not_found",
                     <<"Integration", integration, "not found or disabled">>), <<>>)
       ELSE LET endpointConfig == getEndpoint(integration, endpoint)
            IN IF endpointConfig.threw
               THEN done(ProxyError(500,
                        <<"Cannot read properties of undefined (reading '", endpoint, "')">>,
                        Null), <<>>)
               ELSE IF endpointConfig.value = Undefined
               THEN done(NotFound("endpoint_not_found",
                        <<"Endpoint", endpoint, "not found in integration", integration>>), <<>>)
               ELSE IF hasField(endpointConfig.value, "transformer") /\ ~falsy(body)
               THEN LET t == registryTransform(endpointConfig.value.transformer, body)
                    IN IF t.threw
                       THEN done([status |-> 400, error |-> "transformation_error",
                                  message |-> "Failed to transform request data",
                                  details |-> t.message], t.trace)
                       ELSE send(t.output, t.trace)
               ELSE send(body, <<>>)

\* getStatus up to its wait for the upstream answer: [response, call, trace]
getStatus(integration) ==
    LET config == getIntegration(integration)
        client == createHttpClient(integration)
    IN IF config = Undefined
       THEN [response |-> NotFound("integration_not_found",
                              <<"Integration", integration, "not found">>),
             call |-> NoCall, trace |-> <<>>]
       ELSE IF client.threw
       THEN [response |-> [status |-> 500, error |-> "status_check_error",
                           message |-> client.message],
             call |-> NoCall, trace |-> <<>>]
       ELSE [response |-> Null,
             call |-> Outbound(integration, "GET", <<>>, Undefined), trace |-> <<>>]

\* what the upstream call of a request settles with: a response, an error
\* that carries the upstream's response, or an error without one; data is the
\* body axios parsed
Settlements ==
    {[kind |-> "response", status |-> 200, data |-> Str("upstream data")],
     [kind |-> "error", status |-> 503, data |-> Str("upstream data")],
     [kind |-> "error", status |-> 0]}

\* forward after the wait: res.status(response.status).json(response.data),
\* or the proxy_error of the catch with error.response?.status || 500 and
\* error.response?.data || null
forwardSettled(settlement) ==
    IF settlement.kind = "response"
    THEN [status |-> settlement.status, data |-> settlement.data]
    ELSE ProxyError(IF settlement.status # 0 THEN settlement.status ELSE 500,
                    <<"Request failed">>,
                    IF falsy(field(settlement, "data")) THEN Null ELSE settlement.data)

\* getStatus after the wait
statusSettled(integration, settlement) ==
    [status |-> 200, integration |-> integration,
     enabled |-> getIntegration(integration).enabled,
     connectionStatus |-> IF settlement.kind = "response" THEN "connected"
                          ELSE IF settlement.status # 0 THEN "reachable"
                          ELSE "unreachable"]

----------------------------------------------------------------------------
(* Proxy routes: routes/proxy.ts *)

\* a route of createProxyRoutes whose handler runs whatever the middleware did
proxyRoute_open(S, C, t, method, integration, endpoint, authHeader, body, query) ==
    LET m == authMiddleware(S, C, authHeader, t)
        h == IF method = "GET" /\ endpoint = "status"
             THEN getStatus(integration)
             ELSE forward(integration, endpoint, body, query)
    IN [admitted |-> m.next,
        route |-> IF method = "GET" /\ endpoint = "status" THEN "status" ELSE "forward",
        response |-> h.response, call |-> h.call, trace |-> h.trace]

\* router.<method>('/:integration/status' or '/:integration/:endpoint',
\* authMiddleware, handler): the status route is registered first and for GET
\* only.  [admitted, route, response, call, trace]
proxyRoute(S, C, t, method, integration, endpoint, authHeader, body, query) ==
    LET route == IF method = "GET" /\ endpoint = "status" THEN "status" ELSE "forward"
        m == authMiddleware(S, C, authHeader, t)
        h == IF route = "status"
             THEN getStatus(integration)
             ELSE forward(integration, endpoint, body, query)
    IN IF ~m.next
       THEN [admitted |-> FALSE, route |-> route, response |-> m.response,
             call |-> NoCall, trace |-> <<>>]
       ELSE [admitted |-> TRUE, route |-> route] @@ h

\* what is kept of an exchange on a proxy route: whether the middleware called
\* next(), the route, the status and error of the response (0 and "" while the
\* upstream is awaited), the transformer methods entered, and whether an
\* upstream call was issued
Exchange(admitted, route, response, trace, outbound) ==
    [admitted |-> admitted, route |-> route,
     status |-> IF response = Null THEN 0 ELSE response.status,
     error |-> IF response # Null /\ "error" \in DOMAIN response THEN response.error ELSE "",
     trace |-> trace, outbound |-> outbound]

\* what last holds before any request
NoExchange == Exchange(FALSE, "", Null, <<>>, FALSE)

----------------------------------------------------------------------------
(* middleware/rateLimiter.ts *)

\* !requestCounts[userIp]: no entry for the address, or an entry of 0
uncounted(counts, userIp) == userIp \notin DOMAIN counts \/ counts[userIp] = 0

\* obj[key] = value
assign(obj, key, value) == [k \in DOMAIN obj \cup {key} |-> IF k = key THEN value ELSE obj[k]]

\* rateLimiter letting one more request through than RATE_LIMIT
rateLimiter_onePast(counts, timestamps, userIp, currentTime) ==
    LET opened == IF uncounted(counts, userIp) THEN currentTime ELSE timestamps[userIp]
        before == IF uncounted(counts, userIp) THEN 0 ELSE counts[userIp]
        timeElapsed == currentTime - opened
        count == IF timeElapsed > TIME_WINDOW THEN 1 ELSE before + 1
        started == IF timeElapsed > TIME_WINDOW THEN currentTime ELSE opened
    IN [requestCounts |-> assign(counts, userIp, count),
        requestTimestamps |-> assign(timestamps, userIp, started),
        status |-> IF count > RATE_LIMIT + 1 THEN 429 ELSE 0,
        next |-> ~(count > RATE_LIMIT + 1)]

\* rateLimiter that never starts a new window
rateLimiter_neverResets(counts, timestamps, userIp, currentTime) ==
    LET opened == IF uncounted(counts, userIp) THEN currentTime ELSE timestamps[userIp]
        before == IF uncounted(counts, userIp) THEN 0 ELSE counts[userIp]
        count == before + 1
    IN [requestCounts |-> assign(counts, userIp, count),
        requestTimestamps |-> assign(timestamps, userIp, opened),
        status |-> IF count > RATE_LIMIT THEN 429 ELSE 0,
        next |-> ~(count > RATE_LIMIT)]

\* rateLimiter(req, res, next) for a request of userIp at currentTime:
\* [requestCounts, requestTimestamps, status, next]; status is 429 when the
\* middleware answers, 0 when it calls next()
rateLimiter(counts, timestamps, userIp, currentTime) ==
    LET opened == IF uncounted(counts, userIp) THEN currentTime ELSE timestamps[userIp]
        before == IF uncounted(counts, userIp) THEN 0 ELSE counts[userIp]
        timeElapsed == currentTime - opened
        count == IF timeElapsed > TIME_WINDOW THEN 1 ELSE before + 1
        started == IF timeElapsed > TIME_WINDOW THEN currentTime ELSE opened
    IN [requestCounts |-> assign(counts, userIp, count),
        requestTimestamps |-> assign(timestamps, userIp, started),
        status |-> IF count > RATE_LIMIT THEN 429 ELSE 0,
        next |-> ~(count > RATE_LIMIT)]

----------------------------------------------------------------------------
(* State after construction: the provisioned clients, no session *)

clientRow(c) ==
    [id |-> c, client_id |-> ClientName(c),
     client_secret_hash |-> hashSecret(SecretOf(c)), is_active |-> 1]

\* no direct call of generateTokens yet
NoTokens == [expiresIn |-> 0]

\* an object without keys: const requestCounts = {}, requestTimestamps = {}
NoAddresses == [a \in {} |-> 0]

Init ==
    /\ clients = [c \in ClientRows |-> clientRow(c)]
    /\ sessions = [s \in {} |-> Null]
    /\ nextId = 1
    /\ nextRand = 1
    /\ now = 0
    /\ ticks = 0
    /\ pending = EmptyBag
    /\ issued = {}
    /\ rotated = {}
    /\ calls = {}
    /\ last = NoExchange
    /\ http = [slot \in HttpSlots |-> [phase |-> "none"]]
    /\ hook = NoHook
    /\ generated = NoTokens
    /\ logged = NoLog
    /\ requestCounts = NoAddresses
    /\ requestTimestamps = NoAddresses
    /\ traffic = NoAddresses

----------------------------------------------------------------------------
(* What callers can send *)

\* the same payload signed with another key
forge(accessToken) ==
    [accessToken EXCEPT !.sig = signature(otherKey, accessToken.clientId, accessToken.type,
                                          accessToken.jti, accessToken.iat, accessToken.exp)]

\* a longer expiry written into the payload, the signature left as issued
extend(accessToken) == [accessToken EXCEPT !.exp = accessToken.exp + ExpiresIn]

AccessTokensIssued == {p.access_token : p \in issued}
RefreshTokensIssued == {p.refresh_token : p \in issued}

PresentedAccessTokens ==
    AccessTokensIssued \cup {forge(a) : a \in AccessTokensIssued}
        \cup {extend(a) : a \in AccessTokensIssued}
        \cup RefreshTokensIssued \cup {garbageToken}

PresentedRefreshTokens == RefreshTokensIssued \cup AccessTokensIssued \cup {garbageToken}

PresentedHeaders ==
    {Absent, Header(<<"InvalidFormat">>)}
        \cup {Header(<<"Bearer", a>>) : a \in PresentedAccessTokens}
        \cup {Header(<<"Basic", a>>) : a \in AccessTokensIssued}
        \cup {Header(<<"Bearer", a, "x">>) : a \in AccessTokensIssued}

\* the bodies sent to POST /auth/token: the well-formed ones, and one for each
\* way the handler refuses a body before it reads the store
TokenBodies ==
    LET body(id, secret, g) == [client_id |-> id, client_secret |-> secret, grant_type |-> g]
    IN {body(id, secret, "client_credentials") : id \in ClientNames, secret \in Secrets}
           \cup {body("", SecretOf(1), "client_credentials"),
                 body(ClientName(1), <<>>, "client_credentials"),
                 body(ClientName(1), SecretOf(1), ""),
                 body(ClientName(1), SecretOf(1), "refresh_token")}

\* the bodies sent to POST /auth/refresh, likewise
RefreshBodies ==
    LET body(rt, g) == [refresh_token |-> rt, grant_type |-> g]
    IN {body(rt, "refresh_token") : rt \in PresentedRefreshTokens \cup {noToken}}
           \cup {body(rt, g) : rt \in RefreshTokensIssued, g \in {"", "client_credentials"}}

\* one character of a secret replaced by another
mutate(secret, i) == [secret EXCEPT ![i] = "#"]

\* the secrets authenticateClient is called with: the provisioned ones, and
\* each with its first or its last character replaced
PresentedSecrets ==
    Secrets \cup UNION {{mutate(SecretOf(c), 1), mutate(SecretOf(c), Len(SecretOf(c)))} :
                            c \in ClientRows}

\* the tokens the requests that only read, or that change nothing unless the
\* token validates, are made with
RequestAccessTokens ==
    AccessTokensIssued \cup {forge(a) : a \in AccessTokensIssued} \cup {garbageToken}

RequestHeaders ==
    {Absent, Header(<<"InvalidFormat">>)}
        \cup {Header(<<"Bearer", a>>) : a \in AccessTokensIssued \cup {garbageToken}}

----------------------------------------------------------------------------
(* The clock and the clients table, changed from outside AuthService *)

Tick ==
    /\ ticks < MaxTicks
    /\ now' = now + TickStep(ticks)
    /\ ticks' = ticks + 1
    /\ UNCHANGED <<generated, logged, requestCounts, requestTimestamps, traffic, http, hook, calls, last, clients, sessions, nextId, nextRand, pending, issued, rotated>>

\* UPDATE clients SET is_active = ? WHERE id = ?
SetClientActive(c, flag) ==
    /\ c \in DOMAIN clients
    /\ clients[c].is_active # flag
    /\ clients' = [clients EXCEPT ![c].is_active = flag]
    /\ UNCHANGED <<generated, logged, requestCounts, requestTimestamps, traffic, http, hook, calls, last, sessions, nextId, nextRand, now, ticks, pending, issued, rotated>>

\* DELETE FROM clients WHERE id = ? that leaves the sessions table alone
DeleteClient_noCascade(c) ==
    /\ c \in DOMAIN clients
    /\ clients' = [x \in DOMAIN clients \ {c} |-> clients[x]]
    /\ UNCHANGED <<generated, logged, requestCounts, requestTimestamps, traffic, http, hook, calls, last, sessions, nextId, nextRand, now, ticks, pending, issued, rotated>>

\* DELETE FROM clients WHERE id = ?, with ON DELETE CASCADE on sessions.client_id
DeleteClient(c) ==
    /\ c \in DOMAIN clients
    /\ clients' = [x \in DOMAIN clients \ {c} |-> clients[x]]
    /\ sessions' = [s \in {x \in DOMAIN sessions : sessions[x].client_id # c} |-> sessions[s]]
    /\ UNCHANGED <<generated, logged, requestCounts, requestTimestamps, traffic, http, hook, calls, last, nextId, nextRand, now, ticks, pending, issued, rotated>>

----------------------------------------------------------------------------
(* Requests *)

Call(client, secret) == [client |-> client, secret |-> secret]

\* A call that waits for verifySecret may insert a row when it resumes: the
\* rows stored and the calls waiting together stay within MaxSessions.
TokenRequest(client_id, client_secret, grant_type) ==
    LET r == token(clients, client_id, client_secret, grant_type)
    IN /\ r.wait => nextId + BagCardinality(pending) <= MaxSessions
       /\ pending' = IF r.wait
                     THEN pending (+) SetToBag({Call(r.client, client_secret)})
                     ELSE pending
       /\ UNCHANGED <<generated, logged, requestCounts, requestTimestamps, traffic, http, hook, calls, last, clients, sessions, nextId, nextRand, now, ticks, issued, rotated>>

TokenVerified(call) ==
    /\ BagIn(call, pending)
    /\ LET r == tokenVerified(sessions, clients, call, now, nextId, nextRand)
       IN /\ r.inserted => nextId <= MaxSessions
          /\ sessions' = r.sessions
          /\ nextId' = IF r.inserted THEN nextId + 1 ELSE nextId
          /\ nextRand' = IF r.inserted \/ r.threw THEN nextRand + 2 ELSE nextRand
          /\ issued' = IF r.ret # Null THEN issued \cup {r.ret} ELSE issued
          /\ pending' = pending (-) SetToBag({call})
    /\ UNCHANGED <<generated, logged, requestCounts, requestTimestamps, traffic, http, hook, calls, last, clients, now, ticks, rotated>>

RefreshRequest(refresh_token, grant_type) ==
    LET r == refresh(sessions, clients, refresh_token, grant_type, now, nextId, nextRand)
    IN /\ r.inserted => nextId + BagCardinality(pending) <= MaxSessions
       /\ sessions' = r.sessions
       /\ nextId' = IF r.inserted THEN nextId + 1 ELSE nextId
       /\ nextRand' = IF r.inserted \/ r.threw THEN nextRand + 2 ELSE nextRand
       /\ issued' = IF r.ret # Null THEN issued \cup {r.ret} ELSE issued
       /\ rotated' = IF r.ret # Null THEN rotated \cup {<<refresh_token, nextId>>} ELSE rotated
       /\ UNCHANGED <<generated, logged, requestCounts, requestTimestamps, traffic, http, hook, calls, last, clients, now, ticks, pending>>

RevokeRequest(accessToken) ==
    /\ sessions' = revoke(sessions, accessToken, now).sessions
    /\ UNCHANGED <<generated, logged, requestCounts, requestTimestamps, traffic, http, hook, calls, last, clients, nextId, nextRand, now, ticks, pending, issued, rotated>>

\* reads only: the outcome is authMiddleware(sessions, clients, authHeader, now)
AuthMiddleware(authHeader) ==
    /\ authMiddleware(sessions, clients, authHeader, now).next \in BOOLEAN
    /\ UNCHANGED vars

----------------------------------------------------------------------------
(* AuthService called directly *)

\* reads only: the outcome is authenticateClient(clients, clientId, clientSecret)
AuthenticateClient(clientId, clientSecret) ==
    /\ authenticateClient(clients, clientId, clientSecret) \in {Null} \cup {clients[c] : c \in DOMAIN clients}
    /\ UNCHANGED vars

\* reads only: the outcome is validateAccessToken(sessions, accessToken, now)
ValidateAccessToken(accessToken) ==
    /\ validateAccessToken(sessions, accessToken, now).storeReads \in {0, 1}
    /\ UNCHANGED vars

RevokeSession(sessionId) ==
    /\ sessions' = revokeSession(sessions, sessionId)
    /\ UNCHANGED <<generated, logged, requestCounts, requestTimestamps, traffic, http, hook, calls, last, clients, nextId, nextRand, now, ticks, pending, issued, rotated>>

RevokeAllClientSessions(clientId) ==
    /\ sessions' = revokeAllClientSessions(sessions, clientId)
    /\ UNCHANGED <<generated, logged, requestCounts, requestTimestamps, traffic, http, hook, calls, last, clients, nextId, nextRand, now, ticks, pending, issued, rotated>>

CleanupExpiredSessions ==
    /\ sessions' = cleanupExpiredSessions(sessions, now).sessions
    /\ UNCHANGED <<generated, logged, requestCounts, requestTimestamps, traffic, http, hook, calls, last, clients, nextId, nextRand, now, ticks, pending, issued, rotated>>

----------------------------------------------------------------------------
(* Requests to the proxy routes *)

\* request bodies as express.json() leaves them in req.body
EmptyObject == [object |-> TRUE]

ValidReservation ==
    [object |-> TRUE,
     reservationId |-> Str("R1"), guestName |-> Str("Ann"),
     guestEmail |-> Chars(<<"a", "@", "b", ".", "c">>),
     guestPhone |-> Chars(<<"+", "1", " ", "5">>),
     checkInDate |-> DateStr(1), checkOutDate |-> DateStr(2),
     roomType |-> Str("double"), numberOfGuests |-> Num(2), totalAmount |-> Num(100),
     currency |-> Str("USD"), status |-> Str("pending")]

\* a reservation the validator accepts and the mapping cannot process
NumericPhone == [ValidReservation EXCEPT !.guestPhone = Num(5551234)]

\* reservations the validator rejects
RejectedReservations ==
    {EmptyObject,
     [ValidReservation EXCEPT !.guestEmail = Chars(<<"a", "b">>)],
     [ValidReservation EXCEPT !.checkInDate = Str("soon")],
     [ValidReservation EXCEPT !.checkOutDate = DateStr(1)],
     [ValidReservation EXCEPT !.totalAmount = Num(0)]}

PresentedBodies == {Undefined, ValidReservation, NumericPhone} \cup RejectedReservations

\* the Authorization headers the requests are made with: none, or a token
\* that was issued (live, revoked or expired by now)
ProxyHeaders == {Absent} \cup {Header(<<"Bearer", a>>) : a \in AccessTokensIssued}

Request(method, integration, endpoint, body, query) ==
    [method |-> method, integration |-> integration, endpoint |-> endpoint,
     body |-> body, query |-> query]

\* the requests made: one or two for each way a proxy route can go
Requests ==
    {Request("POST", "booking_engine", "createReservation", ValidReservation, <<>>),
     Request("POST", "booking_engine", "createReservation", EmptyObject, <<>>),
     Request("POST", "booking_engine", "createReservation", NumericPhone, <<>>),
     Request("POST", "pms_system", "syncGuest", ValidReservation, <<>>),
     Request("GET", "booking_engine", "getReservation", Undefined, << <<"id", "42">> >>),
     Request("GET", "booking_engine", "unknown", Undefined, <<>>),
     Request("GET", "booking_engine", "constructor", Undefined, <<>>),
     Request("POST", "channel_manager", "updatePricing", EmptyObject, <<>>),
     Request("POST", "unknown", "status", EmptyObject, <<>>),
     Request("GET", "pms_system", "status", Undefined, <<>>)}

\* A request to /proxy/:integration/:endpoint or /proxy/:integration/status:
\* the middleware, then the handler up to its wait for the upstream.  A
\* request that calls the upstream is made when no other one waits.
ProxyRequest(request, authHeader) ==
    \E r \in {proxyRoute(sessions, clients, now, request.method, request.integration,
                         request.endpoint, authHeader, request.body, request.query)} :
       /\ r.call # NoCall => calls = {}
       /\ calls' = IF r.call = NoCall THEN calls
                   ELSE calls \cup {[route |-> r.route, admitted |-> r.admitted,
                                     call |-> r.call]}
       /\ last' = Exchange(r.admitted, r.route, r.response, r.trace, r.call # NoCall)
       /\ UNCHANGED <<generated, logged, requestCounts, requestTimestamps, traffic, http, hook, clients, sessions, nextId, nextRand, now, ticks, pending, issued, rotated>>

\* the upstream call of a waiting request settles, and the handler answers
CallSettles(c, settlement) ==
    /\ c \in calls
    /\ calls' = calls \ {c}
    /\ last' = Exchange(c.admitted, c.route,
                         IF c.route = "status"
                         THEN statusSettled(c.call.integration, settlement)
                         ELSE forwardSettled(settlement),
                         <<>>, FALSE)
    /\ UNCHANGED <<generated, logged, requestCounts, requestTimestamps, traffic, http, hook, clients, sessions, nextId, nextRand, now, ticks, pending, issued, rotated>>

----------------------------------------------------------------------------
(* HttpClient objects and their calls.  Each call carries its own retry
   state, as axios-retry keeps it in the configuration of the request. *)

\* the options HttpClient is constructed with: createHttpClient(integration),
\* createHttpClient(integration, {retries: 0, logRequests: false}), and an
\* explicit number of retries
NoOptions == [integration |-> "name"]
ClientOptions == {NoOptions, NoOptions @@ [retries |-> 0], NoOptions @@ [retries |-> 1]}

\* an IntegrationConfig, as far as the constructor reads it
Config(name, auth, more) == [name |-> name, auth |-> auth] @@ more

\* configurations that differ in their retries: the two enabled ones of
\* defaultIntegrations, one that configures none, one that configures zero
RetryConfigs ==
    {Config("Booking Engine", [type |-> "api_key"], [retries |-> 3]),
     Config("PMS System", [type |-> "bearer"], [retries |-> 2]),
     Config("No Retries Configured", [type |-> "none"], [timeout |-> 1000]),
     Config("Zero Retries", [type |-> "none"], [retries |-> 0])}

\* what an attempt can end with
Outcomes ==
    {Answer(200), Answer(404), Answer(429), Answer(503),
     NetworkError("ECONNRESET"), NetworkError("ECONNABORTED")}

\* configurations that differ in their auth: every kind, with static
\* headers of the names getAuthHeaders synthesizes, and of another name
AuthConfigs ==
    {Config("Static Authorization, bearer",
            [type |-> "bearer", credentials |-> [token |-> <<"t0k3n">>],
             headers |-> [h \in {"Authorization"} |-> <<"Static v">>]], [retries |-> 1]),
     Config("Static Authorization, basic",
            [type |-> "basic", credentials |-> [username |-> <<"u">>, password |-> <<"p">>],
             headers |-> [h \in {"Authorization"} |-> <<"Static v">>]], [retries |-> 1]),
     Config("Static X-API-Key, api_key",
            [type |-> "api_key", credentials |-> [apiKey |-> <<"k3y">>],
             headers |-> [h \in {"X-API-Key", "X-Tenant"} |-> <<"static">>]], [retries |-> 1]),
     Config("Static headers, none",
            [type |-> "none",
             headers |-> [h \in {"Authorization", "X-API-Key"} |-> <<"static">>]], [retries |-> 1]),
     Config("Static headers, oauth2",
            [type |-> "oauth2", credentials |-> [clientId |-> <<"id">>, clientSecret |-> <<"s">>],
             headers |-> [h \in {"Authorization", "X-API-Key"} |-> <<"static">>]], [retries |-> 1])}

Constructions ==
    {<<"any", o, i>> : o \in ClientOptions, i \in RetryConfigs}
        \cup {<<"any", NoOptions, i>> : i \in AuthConfigs}
        \cup {<<"forward", NoOptions, i>> : i \in {c \in RetryConfigs : c.name = "PMS System"}}

\* new HttpClient(options), when the slot's client is not in a call
NewHttpClient(slot, options, integration) ==
    /\ http[slot].phase \in {"none", "idle", "returned", "failed"}
    /\ http' = [http EXCEPT ![slot] =
                    HttpClient(options, integration)
                        @@ [phase |-> "idle", method |-> "", retryCount |-> 0, attempts |-> 0]]
    /\ UNCHANGED <<generated, logged, requestCounts, requestTimestamps, traffic, hook, calls, last, clients, sessions, nextId, nextRand, now, ticks, pending, issued, rotated>>

\* client.get / post / ...: the first attempt of a call is issued
HttpRequest(slot, method) ==
    /\ http[slot].phase \in {"idle", "returned", "failed"}
    /\ http' = [http EXCEPT ![slot].phase = "attempt", ![slot].method = method,
                            ![slot].retryCount = 0, ![slot].attempts = 1]
    /\ UNCHANGED <<generated, logged, requestCounts, requestTimestamps, traffic, hook, calls, last, clients, sessions, nextId, nextRand, now, ticks, pending, issued, rotated>>

\* the attempt in flight ends: axios resolves it, or rejects it and
\* axios-retry retries when retryCount < retries and retryCondition(error)
AttemptSettles(slot, outcome) ==
    /\ http[slot].phase = "attempt"
    /\ \E retry \in retryCondition(http[slot].method, outcome) :
          http' = [http EXCEPT
                      ![slot].phase =
                          IF resolved(outcome) THEN "returned"
                          ELSE IF http[slot].retryCount < http[slot].retries /\ retry
                          THEN "backoff"
                          ELSE "failed",
                      ![slot].retryCount =
                          IF ~resolved(outcome) /\ http[slot].retryCount < http[slot].retries /\ retry
                          THEN @ + 1 ELSE @]
    /\ UNCHANGED <<generated, logged, requestCounts, requestTimestamps, traffic, hook, calls, last, clients, sessions, nextId, nextRand, now, ticks, pending, issued, rotated>>

\* retryDelay has elapsed: the request is issued again
BackoffElapses(slot) ==
    /\ http[slot].phase = "backoff"
    /\ http' = [http EXCEPT ![slot].phase = "attempt", ![slot].attempts = @ + 1]
    /\ UNCHANGED <<generated, logged, requestCounts, requestTimestamps, traffic, hook, calls, last, clients, sessions, nextId, nextRand, now, ticks, pending, issued, rotated>>

----------------------------------------------------------------------------
(* Requests to the webhook routes *)

WebhookConfig(name, flag, more) == [name |-> name, enabled |-> flag] @@ more

AllowedEvents == {"reservation.created", "reservation.updated", "reservation.cancelled"}

WebhookSecret == Plain("whsec", 5)

\* what getIntegration can return to the webhook handlers: the three of
\* defaultIntegrations, booking_engine with BOOKING_ENGINE_WEBHOOK_SECRET set
\* and unset; configurations with other webhook descriptors; undefined for
\* an unknown name
WebhookConfigs ==
    {WebhookConfig("Booking Engine", TRUE,
         [webhooks |-> [enabled |-> TRUE, secret |-> WebhookSecret, events |-> AllowedEvents]]),
     WebhookConfig("Booking Engine", TRUE,
         [webhooks |-> [enabled |-> TRUE, events |-> AllowedEvents]]),
     WebhookConfig("PMS System", TRUE, [webhooks |-> [enabled |-> FALSE]]),
     WebhookConfig("Channel Manager", FALSE, [timeout |-> 15000]),
     WebhookConfig("No descriptor", TRUE, [timeout |-> 1000]),
     WebhookConfig("Secret, any event", TRUE,
         [webhooks |-> [enabled |-> TRUE, secret |-> WebhookSecret]]),
     WebhookConfig("Not enabled, secret", TRUE,
         [webhooks |-> [enabled |-> FALSE, secret |-> WebhookSecret]]),
     WebhookConfig("Disabled, descriptor", FALSE,
         [webhooks |-> [enabled |-> TRUE, secret |-> WebhookSecret, events |-> AllowedEvents]]),
     Undefined}

\* the raw bodies of the requests: two payloads, each written compactly and
\* with white space
RawBodies ==
    {Text([object |-> TRUE, event |-> e], spacing) :
        e \in {"reservation.created", "room.cleaned"}, spacing \in {"compact", "spaced"}}

\* the X-Webhook-Signature headers sent with a raw body: none, the digest of
\* the raw body under the secret, the digest of its compact form, a digest
\* under another secret, a digest with one character replaced or without its
\* last one, the empty string, and text that is no digest
Signatures(raw) ==
    {NoSignature, EmptyString, Plain("provided", 9),
     hmacHex(WebhookSecret, raw), hmacHex(WebhookSecret, JSONstringify(JSONparse(raw))),
     hmacHex(Plain("other", 5), raw),
     flip(hmacHex(WebhookSecret, raw), 1), cut(hmacHex(WebhookSecret, raw))}

\* what hook keeps of a request: what was sent and what was answered
HookExchange(route, config, event, provided, raw, answer) ==
    [route |-> route, config |-> config, event |-> event, provided |-> provided,
     raw |-> raw] @@ answer

\* POST /webhooks/:integration
WebhookReceive(config, provided, raw) ==
    /\ hook' = HookExchange("receive", config, "", provided, raw,
                            receive(config, provided, JSONparse(raw)))
    /\ UNCHANGED <<generated, logged, requestCounts, requestTimestamps, traffic, http, calls, last, clients, sessions, nextId, nextRand, now, ticks, pending, issued, rotated>>

\* POST /webhooks/:integration/:event
WebhookReceiveEvent(config, event, provided, raw) ==
    /\ hook' = HookExchange("receiveEvent", config, event, provided, raw,
                            receiveEvent(config, event, provided, JSONparse(raw)))
    /\ UNCHANGED <<generated, logged, requestCounts, requestTimestamps, traffic, http, calls, last, clients, sessions, nextId, nextRand, now, ticks, pending, issued, rotated>>

\* integrationManager.validateWebhookSignature(name, payload, signature)
ValidateWebhookSignature(config, payload, provided) ==
    /\ hook' = HookExchange("validateWebhookSignature", config, "", provided, payload,
                            validateWebhookSignature(config, payload, provided))
    /\ UNCHANGED <<generated, logged, requestCounts, requestTimestamps, traffic, http, calls, last, clients, sessions, nextId, nextRand, now, ticks, pending, issued, rotated>>

----------------------------------------------------------------------------

Next ==
    \/ Tick
    \/ \E c \in ClientRows, flag \in {0, 1} : SetClientActive(c, flag)
    \/ \E b \in TokenBodies : TokenRequest(b.client_id, b.client_secret, b.grant_type)
    \/ \E call \in BagToSet(pending) : TokenVerified(call)
    \/ \E b \in RefreshBodies : RefreshRequest(b.refresh_token, b.grant_type)
    \/ \E a \in RequestAccessTokens \cup {noToken} : RevokeRequest(a)
    \/ \E h \in RequestHeaders : AuthMiddleware(h)
    \/ \E a \in RequestAccessTokens : ValidateAccessToken(a)
    \/ \E id \in ClientNames, secret \in PresentedSecrets : AuthenticateClient(id, secret)
    \/ \E id \in 1..MaxSessions : RevokeSession(id)
    \/ \E c \in ClientRows : RevokeAllClientSessions(c)
    \/ CleanupExpiredSessions

Spec == Init /\ [][Next]_vars

----------------------------------------------------------------------------
(* The operations that write a table, with saveSession also called directly,
   with token values of the caller's choosing: a freshly generated pair, or
   a pair with one value already handed out.  The operations that only read
   leave every state as it is and are left out. *)

SaveSession(c, accessToken, refreshToken) ==
    /\ c \in DOMAIN clients
    /\ nextId + BagCardinality(pending) <= MaxSessions
    /\ \E tk \in {generateTokens(clients[c].client_id, ExpiresIn, now, nextRand)} :
       \E r \in {saveSession(sessions, clients, nextId, clients[c], accessToken,
                             refreshToken, tk.expiresAt, tk.refreshExpiresAt, now)} :
          /\ sessions' = r.sessions
          /\ nextId' = IF r.threw THEN nextId ELSE nextId + 1
          /\ nextRand' = IF r.threw THEN nextRand ELSE nextRand + 2
          /\ issued' = IF r.threw THEN issued
                        ELSE issued \cup {TokenResponse(accessToken, refreshToken, ExpiresIn)}
    /\ UNCHANGED <<generated, logged, requestCounts, requestTimestamps, traffic, http, hook, calls, last, clients, now, ticks, pending, rotated>>

NextStore ==
    \/ Tick
    \/ \E c \in ClientRows, flag \in {0, 1} : SetClientActive(c, flag)
    \/ \E b \in TokenBodies : TokenRequest(b.client_id, b.client_secret, b.grant_type)
    \/ \E call \in BagToSet(pending) : TokenVerified(call)
    \/ \E b \in RefreshBodies : RefreshRequest(b.refresh_token, b.grant_type)
    \/ \E a \in RequestAccessTokens \cup {noToken} : RevokeRequest(a)
    \/ \E id \in 1..MaxSessions : RevokeSession(id)
    \/ \E c \in ClientRows : RevokeAllClientSessions(c)
    \/ CleanupExpiredSessions
    \/ \E c \in ClientRows :
          LET tk == generateTokens(ClientName(c), ExpiresIn, now, nextRand)
          IN \/ \E a \in AccessTokensIssued \cup {tk.accessToken} :
                    SaveSession(c, a, tk.refreshToken)
             \/ \E t \in RefreshTokensIssued :
                    SaveSession(c, tk.accessToken, t)

SpecStore == Init /\ [][NextStore]_vars

----------------------------------------------------------------------------
(* The same system with client rows also deleted *)

NextAdmin ==
    \/ Next
    \/ \E c \in ClientRows : DeleteClient(c)

SpecAdmin == Init /\ [][NextAdmin]_vars

\* The token endpoint alone, while client rows are deactivated, reactivated
\* and deleted
NextTokens ==
    \/ Tick
    \/ \E c \in ClientRows, flag \in {0, 1} : SetClientActive(c, flag)
    \/ \E b \in TokenBodies : TokenRequest(b.client_id, b.client_secret, b.grant_type)
    \/ \E call \in BagToSet(pending) : TokenVerified(call)
    \/ \E c \in ClientRows : DeleteClient(c)

SpecTokens == Init /\ [][NextTokens]_vars

\* Sessions inserted by the token and refresh endpoints while client rows are
\* deleted
NextCascade ==
    \/ Tick
    \/ \E b \in TokenBodies : TokenRequest(b.client_id, b.client_secret, b.grant_type)
    \/ \E call \in BagToSet(pending) : TokenVerified(call)
    \/ \E b \in RefreshBodies : RefreshRequest(b.refresh_token, b.grant_type)
    \/ \E c \in ClientRows : DeleteClient(c)

SpecCascade == Init /\ [][NextCascade]_vars

\* the access lifetimes generateTokens is called with, in seconds: the
\* shortest, the one of the tests, the one of both endpoints, and a longer one
Lifetimes == {1, 300, ExpiresIn, 2 * ExpiresIn}

\* authService.generateTokens(clientId, expiresIn), called directly: the last
\* step of the behaviours that call it
GenerateTokens(clientId, expiresIn) ==
    /\ generated' = [expiresIn |-> expiresIn, at |-> now,
                     tokens |-> generateTokens(clientId, expiresIn, now, nextRand)]
    /\ nextRand' = nextRand + 2
    /\ UNCHANGED <<logged, requestCounts, requestTimestamps, traffic, http, hook, calls, last,
                   clients, sessions, nextId, now, ticks, pending, issued, rotated>>

\* generateTokens called directly and by the token and refresh endpoints
NextLifetimes ==
    \/ Tick /\ generated = NoTokens
    \/ \E b \in TokenBodies : TokenRequest(b.client_id, b.client_secret, b.grant_type)
                                  /\ generated = NoTokens
    \/ \E call \in BagToSet(pending) : TokenVerified(call) /\ generated = NoTokens
    \/ \E b \in RefreshBodies : RefreshRequest(b.refresh_token, b.grant_type)
                                    /\ generated = NoTokens
    \/ \E L \in Lifetimes : GenerateTokens(ClientName(1), L) /\ generated = NoTokens

\* Sessions issued, refreshed and swept as time passes; nothing is revoked
\* except by a refresh, no client is deactivated or deleted
NextSweep ==
    \/ Tick
    \/ \E b \in TokenBodies : TokenRequest(b.client_id, b.client_secret, b.grant_type)
    \/ \E call \in BagToSet(pending) : TokenVerified(call)
    \/ \E b \in RefreshBodies : RefreshRequest(b.refresh_token, b.grant_type)
    \/ CleanupExpiredSessions

SpecSweep == Init /\ [][NextSweep]_vars

SpecLifetimes == Init /\ [][NextLifetimes]_vars

\* the payloads execute is called with: a reservation with each of five
\* fields valid, invalid or missing, and the values that are no object
Reservations ==
    LET with(r, name, value) ==
            IF value = Undefined
            THEN [k \in DOMAIN r \ {name} |-> r[k]]
            ELSE [k \in DOMAIN r \cup {name} |-> IF k = name THEN value ELSE r[k]]
    IN {with(with(with(with(with(ValidReservation,
            "guestEmail", email), "guestPhone", phone), "checkInDate", checkIn),
            "totalAmount", total), "specialRequests", notes) :
        email \in {ValidReservation.guestEmail, Chars(<<"a", "b">>), Undefined},
        phone \in {ValidReservation.guestPhone, Num(5551234), Undefined},
        checkIn \in {DateStr(1), DateStr(2), Str("soon")},
        total \in {Num(100), Num(0)},
        notes \in {Str("late arrival"), Undefined}}

ExecuteInputs == Reservations \cup {EmptyObject, Null, Undefined}

\* transformer.execute(input) of the registered transformer
Execute(input) ==
    /\ logged' = [input |-> input,
                  threw |-> execute(input).threw,
                  entries |-> executeLog("BookingReservationTransformer", input)]
    /\ UNCHANGED <<generated, requestCounts, requestTimestamps, traffic, http, hook, calls, last,
                   clients, sessions, nextId, nextRand, now, ticks, pending, issued, rotated>>

NextTransform == \E input \in ExecuteInputs : Execute(input)

SpecTransform == Init /\ [][NextTransform]_vars

----------------------------------------------------------------------------
(* The service with its proxy routes: tokens are issued, revoked and left to
   expire while requests are forwarded.  Tokens are asked for by one client,
   one request at a time. *)

\* POST /auth/token by the client, when no request of its is being answered
ClientAsksToken ==
    /\ pending = EmptyBag
    /\ TokenRequest(ClientName(1), SecretOf(1), "client_credentials")

NextProxy ==
    \/ Tick
    \/ ClientAsksToken
    \/ \E call \in BagToSet(pending) : TokenVerified(call)
    \/ \E a \in AccessTokensIssued : RevokeRequest(a)
    \/ \E request \in Requests, h \in ProxyHeaders : ProxyRequest(request, h)
    \/ \E c \in calls, settlement \in Settlements : CallSettles(c, settlement)

SpecProxy == Init /\ [][NextProxy]_vars

----------------------------------------------------------------------------
(* The rate limiter under the requests of two addresses.  One address sends
   until it is MaxOverLimit requests past the limit, in each window; the
   other sends up to MaxByOthers requests in each of its windows. *)

Addresses == {"10.0.0.1", "10.0.0.2"}

\* the clock between requests: half a window, half a window, a millisecond
WindowStep(i) == IF i % 3 = 2 THEN 1 ELSE TIME_WINDOW \div 2

WindowTick ==
    /\ ticks < MaxTicks
    /\ now' = now + WindowStep(ticks)
    /\ ticks' = ticks + 1
    /\ UNCHANGED <<generated, logged, requestCounts, requestTimestamps, traffic, http, hook,
                   calls, last, clients, sessions, nextId, nextRand, pending, issued, rotated>>

\* what the address has been answered: the time of the request that opened
\* its window (the first one, or one arriving more than TIME_WINDOW after the
\* opening of the window before), how many of its requests were passed to
\* next() and how many got 429 since, whether the latest was passed, and
\* whether it got a 429 in an earlier window
answered(history, userIp, currentTime, passed) ==
    LET fresh == userIp \notin DOMAIN history
        opens == fresh \/ currentTime - history[userIp].opened > TIME_WINDOW
        h == IF opens
             THEN [opened |-> currentTime, passed |-> 0, rejected |-> 0, latest |-> passed,
                   limitedBefore |-> ~fresh /\ (history[userIp].limitedBefore
                                                  \/ history[userIp].rejected > 0)]
             ELSE [history[userIp] EXCEPT !.latest = passed]
    IN assign(history, userIp,
              IF passed THEN [h EXCEPT !.passed = @ + 1] ELSE [h EXCEPT !.rejected = @ + 1])

\* a request of the address arrives at the middleware
RateRequest(userIp) ==
    LET r == rateLimiter(requestCounts, requestTimestamps, userIp, now)
        sent == IF userIp \in DOMAIN requestCounts THEN requestCounts[userIp] ELSE 0
    IN /\ \/ sent < (IF userIp = "10.0.0.1" THEN RATE_LIMIT + MaxOverLimit ELSE MaxByOthers)
          \/ userIp \in DOMAIN requestTimestamps
             /\ now - requestTimestamps[userIp] > TIME_WINDOW
       /\ requestCounts' = r.requestCounts
       /\ requestTimestamps' = r.requestTimestamps
       /\ traffic' = answered(traffic, userIp, now, r.next)
       /\ UNCHANGED <<generated, logged, http, hook, calls, last, clients, sessions, nextId,
                      nextRand, now, ticks, pending, issued, rotated>>

NextLimiter ==
    \/ WindowTick
    \/ \E userIp \in Addresses : RateRequest(userIp)

SpecLimiter == Init /\ [][NextLimiter]_vars

\* requests beside those of Requests: the status of an integration that is
\* configured and disabled, and requests to an endpoint that declares a
\* transformer whose req.body is absent, null or 0
FurtherRequests ==
    {Request("GET", "channel_manager", "status", Undefined, <<>>),
     Request("POST", "booking_engine", "createReservation", Undefined, <<>>),
     Request("POST", "booking_engine", "createReservation", Null, <<>>),
     Request("POST", "booking_engine", "createReservation", Num(0), <<>>)}

\* The proxy routes under all of these requests, with tokens issued and
\* revoked meanwhile
NextForward ==
    \/ ClientAsksToken
    \/ \E call \in BagToSet(pending) : TokenVerified(call)
    \/ \E a \in AccessTokensIssued : RevokeRequest(a)
    \/ \E request \in Requests \cup FurtherRequests, h \in ProxyHeaders :
           ProxyRequest(request, h)
    \/ \E c \in calls, settlement \in Settlements : CallSettles(c, settlement)

SpecForward == Init /\ [][NextForward]_vars

----------------------------------------------------------------------------
(* HttpClient alone: clients are constructed and make calls whose attempts
   end in any way *)

NextHttp ==
    \/ \E c \in Constructions : NewHttpClient(c[1], c[2], c[3])
    \/ \E slot \in HttpSlots, method \in {"GET", "POST"} : HttpRequest(slot, method)
    \/ \E slot \in HttpSlots, outcome \in Outcomes : AttemptSettles(slot, outcome)
    \/ \E slot \in HttpSlots : BackoffElapses(slot)

SpecHttp == Init /\ [][NextHttp]_vars

----------------------------------------------------------------------------
(* The webhook routes alone, and the provided check of IntegrationManager *)

NextWebhooks ==
    \/ \E config \in WebhookConfigs, raw \in RawBodies :
          \E provided \in Signatures(raw) : WebhookReceive(config, provided, raw)
    \/ \E config \in WebhookConfigs, raw \in RawBodies,
          event \in {"reservation.created", "room.cleaned"} :
          \E provided \in Signatures(raw) : WebhookReceiveEvent(config, event, provided, raw)
    \/ \E config \in WebhookConfigs, raw \in RawBodies :
          \E provided \in Signatures(raw) \ {NoSignature} :
              ValidateWebhookSignature(config, raw, provided)

SpecWebhooks == Init /\ [][NextWebhooks]_vars

----------------------------------------------------------------------------
(* Claims *)

\* the rows holding a token value
rowsWithAccess(a) == {s \in DOMAIN sessions : sessions[s].access_token = a}
rowsWithRefresh(t) == {s \in DOMAIN sessions : sessions[s].refresh_token = t}

\* what POST /auth/refresh would do now with a refresh token
refreshNow(t) == refresh(sessions, clients, t, "refresh_token", now, nextId, nextRand)

\* what validateAccessToken would return now
validateNow(a) == validateAccessToken(sessions, a, now)

\* C1: a refresh token is single-use.  For every refresh token that
\* refreshAccessToken has exchanged for a token pair, in every later state a
\* refreshAccessToken with it returns null and POST /auth/refresh answers
\* 401 invalid_grant.
C1_RefreshTokenSingleUse ==
    \A r \in rotated :
        /\ refreshAccessToken(sessions, clients, r[1], now, nextId, nextRand).ret = Null
        /\ refreshNow(r[1]).response = Response(401, "invalid_grant", "Invalid or expired refresh token")

\* a refresh token was exchanged, its session is still stored, its refresh
\* lifetime has not passed and its client is active: only the exchange makes
\* the second attempt fail
C1_Witness ==
    \E r \in rotated : \E s \in rowsWithRefresh(r[1]) :
        /\ ~(parseDate(sessions[s].refresh_expires_at) < now)
        /\ sessions[s].client_id \in DOMAIN clients
        /\ clients[sessions[s].client_id].is_active = 1
        /\ refreshNow(r[1]).ret = Null

\* C2: of the /auth/refresh requests carrying one refresh token, in whatever
\* order their handlers run, at most one gets a token pair and at most one
\* replacement session is created; every other one is answered exactly as a
\* request with an unknown token is.
C2_OneRefreshWins ==
    /\ \A p, q \in rotated : p[1] = q[1] => p[2] = q[2]
    /\ \A r \in rotated : refreshNow(r[1]) = refreshNow(garbageToken)
    /\ refreshNow(garbageToken).response = Response(401, "invalid_grant", "Invalid or expired refresh token")

\* a second request with an exchanged token while the replacement session is
\* live: it changes nothing
C2_Witness ==
    \E r \in rotated :
        /\ r[2] \in DOMAIN sessions
        /\ sessions[r[2]].is_revoked = 0
        /\ rowsWithRefresh(r[1]) # {}
        /\ refreshNow(r[1]).sessions = sessions
        /\ refreshNow(r[1]).response.status = 401

\* the session of an issued access token is revoked, or its row is gone
revokedOrGone(a) == \A s \in rowsWithAccess(a) : sessions[s].is_revoked = 1

\* C3: once revokeSession has completed for a session, validateAccessToken on
\* its access token returns null in every later state.
C3_RevokedNeverValidates ==
    /\ [](\A a \in AccessTokensIssued : revokedOrGone(a) => validateNow(a).ret = Null)
    /\ [][\A a \in AccessTokensIssued : revokedOrGone(a) => revokedOrGone(a)']_vars

\* a revoked session whose token is otherwise good: signature, embedded and
\* stored expiry all pass
C3_Witness ==
    \E a \in AccessTokensIssued : \E s \in rowsWithAccess(a) :
        /\ sessions[s].is_revoked = 1
        /\ verifyToken(a, now)
        /\ ~(parseDate(sessions[s].expires_at) < now)
        /\ validateNow(a).ret = Null

\* C4: the access token createTokenResponse returns validates at once: in the
\* state it leaves, validateAccessToken returns the session whose access_token
\* is that token.
C4_IssuedTokenValidates ==
    [][\A call \in BagToSet(pending) :
        LET r == tokenVerified(sessions, clients, call, now, nextId, nextRand)
        IN (nextId' = nextId + 1 /\ r.ret # Null /\ TokenVerified(call)) =>
               LET v == validateAccessToken(sessions', r.ret.access_token, now')
               IN /\ v.ret # Null
                  /\ v.ret.access_token = r.ret.access_token
                  /\ v.ret = sessions'[nextId]]_vars

\* createTokenResponse has just stored a session: it was created at this
\* instant, by no refresh, and its token validates
C4_Witness ==
    \E s \in DOMAIN sessions :
        /\ sessions[s].expires_at = toISOString(now + ExpiresIn * MsPerSecond)
        /\ s \notin {r[2] : r \in rotated}
        /\ validateNow(sessions[s].access_token).ret = sessions[s]

revokedCount(S) == Cardinality({s \in DOMAIN S : S[s].is_revoked = 1})
liveCount(S) == Cardinality({s \in DOMAIN S : S[s].is_revoked = 0})

\* C5: after a successful refreshAccessToken(t) the session that held t is
\* revoked and its access token no longer validates, and exactly one new row
\* exists: not revoked, of the same client, carrying the returned tokens.  The
\* number of non-revoked rows is unchanged, the number of revoked rows is one
\* more.
C5_RefreshRotatesSession ==
    [][\A t \in PresentedRefreshTokens :
        LET r == refreshAccessToken(sessions, clients, t, now, nextId, nextRand)
            old == refreshLookup(sessions, clients, t, now)
        IN (nextId' = nextId + 1 /\ r.ret # Null /\ RefreshRequest(t, "refresh_token")) =>
               /\ old.id \in DOMAIN sessions'
               /\ sessions'[old.id].is_revoked = 1
               /\ validateAccessToken(sessions', old.access_token, now').ret = Null
               /\ DOMAIN sessions' \ DOMAIN sessions = {nextId}
               /\ DOMAIN sessions \subseteq DOMAIN sessions'
               /\ sessions'[nextId].is_revoked = 0
               /\ sessions'[nextId].client_id = old.client_id
               /\ sessions'[nextId].access_token = r.ret.access_token
               /\ sessions'[nextId].refresh_token = r.ret.refresh_token
               /\ liveCount(sessions') = liveCount(sessions)
               /\ revokedCount(sessions') = revokedCount(sessions) + 1]_vars

\* a refresh has just replaced a session: the old row revoked, the new one
\* live and created at this instant
C5_Witness ==
    \E r \in rotated : \E s \in rowsWithRefresh(r[1]) :
        /\ sessions[s].is_revoked = 1
        /\ r[2] \in DOMAIN sessions
        /\ sessions[r[2]].is_revoked = 0
        /\ sessions[r[2]].client_id = sessions[s].client_id
        /\ sessions[r[2]].expires_at = toISOString(now + ExpiresIn * MsPerSecond)

\* C6: a client whose is_active flag is 0 cannot authenticate, refresh or
\* validate: authenticateClient finds no client, refreshAccessToken returns
\* null for the refresh token of each of its sessions, and the access token of
\* each of its sessions fails validation and never gets the middleware to call
\* next().
C6_InactiveClientRejected ==
    \A c \in DOMAIN clients :
        clients[c].is_active = 0 =>
            /\ selectActiveClient(clients, clients[c].client_id) = Null
            /\ \A s \in DOMAIN sessions :
                   sessions[s].client_id = c =>
                       /\ refreshNow(sessions[s].refresh_token).ret = Null
                       /\ validateNow(sessions[s].access_token).ret = Null
                       /\ ~authMiddleware(sessions, clients,
                              Header(<<"Bearer", sessions[s].access_token>>), now).next

\* C7: no operation changes a field of a stored session other than
\* is_revoked, and is_revoked only goes from 0 to 1.
C7_SessionImmutableButRevoked ==
    [][\A s \in DOMAIN sessions \cap DOMAIN sessions' :
        /\ sessions'[s] = [sessions[s] EXCEPT !.is_revoked = sessions'[s].is_revoked]
        /\ sessions[s].is_revoked <= sessions'[s].is_revoked
        /\ sessions'[s].is_revoked \in {0, 1}]_vars

\* a revoked row next to a live one of the same client
C7_Witness ==
    \E s, u \in DOMAIN sessions :
        /\ sessions[s].is_revoked = 1
        /\ sessions[u].is_revoked = 0
        /\ sessions[s].client_id = sessions[u].client_id

\* C8: no two session rows share an access_token value and no two share a
\* refresh_token value, revoked rows and rows created by a refresh included.
C8_TokensUnique ==
    \A s, u \in DOMAIN sessions :
        s # u => /\ sessions[s].access_token # sessions[u].access_token
                 /\ sessions[s].refresh_token # sessions[u].refresh_token

\* an INSERT of a token value that is already stored was refused: a row holds
\* a value that a caller may present again
C8_Witness ==
    /\ Cardinality(DOMAIN sessions) >= 2
    /\ \E s \in DOMAIN sessions : sessions[s].is_revoked = 1
    /\ \E r \in rotated : r[2] \in DOMAIN sessions
    /\ \E s \in DOMAIN sessions : \E c \in DOMAIN clients :
           saveSession(sessions, clients, nextId, clients[c], sessions[s].access_token,
                       generateRefreshToken(nextRand), now, now, now).threw

\* C9: cleanupExpiredSessions deletes exactly the rows whose expires_at is
\* earlier than now, revoked or not, returns how many it deleted, and leaves
\* every other session row and every client row as it was.
C9_CleanupDeletesExpired ==
    [][CleanupExpiredSessions =>
        LET r == cleanupExpiredSessions(sessions, now)
            expired == {s \in DOMAIN sessions : parseDate(sessions[s].expires_at) < now}
        IN /\ DOMAIN sessions' = DOMAIN sessions \ expired
           /\ \A s \in DOMAIN sessions' : sessions'[s] = sessions[s]
           /\ r.changes = Cardinality(DOMAIN sessions) - Cardinality(DOMAIN sessions')
           /\ clients' = clients]_vars

\* a sweep has removed the expired session of a client that is still there
\* (no cascade took it), and has kept a session that is not expired
C9_Witness ==
    /\ \E a \in AccessTokensIssued :
           /\ rowsWithAccess(a) = {}
           /\ \E c \in DOMAIN clients : clients[c].client_id = a.clientId
    /\ \E s \in DOMAIN sessions : ~(parseDate(sessions[s].expires_at) < now)

\* C10: validateAccessToken returns a session only if the token's signature
\* verifies and its embedded expiry has not passed, a row with that
\* access_token exists, is not revoked, and its stored expires_at is not
\* earlier than now; the session returned is that row.  Otherwise it returns
\* null, and when the embedded check fails it does not read the store.  The
\* stored expiry decides on its own: were the row's expires_at a millisecond
\* in the past, as a caller of saveSession can store it, the token would not
\* validate.
C10_ValidateConditions ==
    \A a \in PresentedAccessTokens :
        LET v == validateNow(a)
            signed == a.sig = signature(jwtSecret, a.clientId, a.type, a.jti, a.iat, a.exp)
            embedded == a.kind = "jwt" /\ signed /\ (now \div MsPerSecond) < a.exp
            good == {s \in rowsWithAccess(a) :
                        /\ sessions[s].is_revoked = 0
                        /\ ~(parseDate(sessions[s].expires_at) < now)}
        IN /\ v.ret # Null => embedded /\ good # {} /\ v.ret \in {sessions[s] : s \in good}
           /\ v.ret # Null => a \in AccessTokensIssued
           /\ (~embedded \/ good = {}) => v.ret = Null
           /\ ~embedded => v.storeReads = 0
           /\ \A s \in rowsWithAccess(a) :
                  LET past == [sessions EXCEPT ![s].expires_at = toISOString(now - 1)]
                  IN validateAccessToken(past, a, now).ret = Null

\* one token validates while a forged copy of it, and the token of a revoked
\* session, do not
C10_Witness ==
    /\ \E a \in AccessTokensIssued :
           validateNow(a).ret # Null /\ validateNow(forge(a)).ret = Null
    /\ \E a \in AccessTokensIssued :
           /\ rowsWithAccess(a) # {}
           /\ verifyToken(a, now)
           /\ validateNow(a) = [ret |-> Null, storeReads |-> 1]

\* whether the client row a session points to is missing or not active
clientGone(s) ==
    \/ sessions[s].client_id \notin DOMAIN clients
    \/ clients[sessions[s].client_id].is_active # 1

\* C11: refreshAccessToken(t) returns null when no session holds t, when the
\* session holding t is revoked, when its refresh_expires_at has passed, or
\* when the owning client is missing or inactive; in each of these cases it
\* leaves the sessions table as it was: no row revoked, none inserted.
C11_RefreshFailureCases ==
    \A t \in PresentedRefreshTokens :
        LET r == refreshAccessToken(sessions, clients, t, now, nextId, nextRand)
            held == rowsWithRefresh(t)
            failing ==
                \/ held = {}
                \/ \E s \in held :
                       \/ sessions[s].is_revoked = 1
                       \/ parseDate(sessions[s].refresh_expires_at) < now
                       \/ clientGone(s)
        IN failing => /\ r.ret = Null
                      /\ ~r.threw
                      /\ ~r.inserted
                      /\ r.sessions = sessions

\* each stored cause alone makes a refresh fail: a live session of an active
\* client whose refresh lifetime has passed, and a live, unexpired session
\* whose client is inactive
C11_Witness ==
    /\ \E t \in RefreshTokensIssued : \E s \in rowsWithRefresh(t) :
           /\ sessions[s].is_revoked = 0
           /\ ~clientGone(s)
           /\ parseDate(sessions[s].refresh_expires_at) < now
           /\ refreshNow(t).ret = Null
    /\ \E t \in RefreshTokensIssued : \E s \in rowsWithRefresh(t) :
           /\ sessions[s].is_revoked = 0
           /\ clientGone(s)
           /\ ~(parseDate(sessions[s].refresh_expires_at) < now)
           /\ refreshNow(t).ret = Null

\* C12: authenticateClient returns the client exactly when a row with that
\* client_id exists, is active, and the secret is the one the client was
\* created with; it returns null for an unknown client_id, for an inactive
\* client, and for every secret that differs from the correct one in a single
\* character.
C12_AuthenticateExactly ==
    /\ \A id \in ClientNames, secret \in PresentedSecrets :
           LET r == authenticateClient(clients, id, secret)
               rows == {c \in DOMAIN clients :
                           /\ clients[c].client_id = id
                           /\ clients[c].is_active = 1
                           /\ secret = SecretOf(c)}
           IN /\ r # Null <=> rows # {}
              /\ r # Null => r \in {clients[c] : c \in rows}
    /\ \A c \in DOMAIN clients : \A i \in 1..Len(SecretOf(c)) :
           authenticateClient(clients, clients[c].client_id, mutate(SecretOf(c), i)) = Null

\* what POST /auth/token answers to a client_credentials request when
\* verifySecret, if it is waited for, resolves with the store as it is now
tokenAnswer(id, secret) ==
    LET r == token(clients, id, secret, "client_credentials")
    IN IF r.wait
       THEN tokenVerified(sessions, clients, Call(r.client, secret), now, nextId, nextRand).response
       ELSE r.response

C14_RevokeAlways200 ==
    \A a \in PresentedAccessTokens :
        revoke(sessions, a, now).response = Response(200, "", "Token revoked successfully")

\* the three kinds of token at once: one that validates, one whose session is
\* revoked, and one no session ever held
C14_Witness ==
    /\ \E a \in AccessTokensIssued : validateNow(a).ret # Null
    /\ \E a \in AccessTokensIssued : \E s \in rowsWithAccess(a) : sessions[s].is_revoked = 1
    /\ rowsWithAccess(garbageToken) = {}
    /\ \A a \in AccessTokensIssued \cup {garbageToken} :
           revoke(sessions, a, now).response.status = 200

\* what the middleware does with a request carrying "Bearer <token>"
bearerNow(a) == authMiddleware(sessions, clients, Header(<<"Bearer", a>>), now)

\* C15: POST /auth/revoke with the access token of a session that validates
\* leaves that session revoked; and once the session of an access token is
\* revoked it stays so, and every request carrying the token is answered 401
\* by the middleware, which does not call next().
C15_RevokedTokenGets401 ==
    /\ [](\A a \in AccessTokensIssued :
            validateNow(a).ret # Null =>
                LET after == revoke(sessions, a, now).sessions
                IN /\ DOMAIN after = DOMAIN sessions
                   /\ \A s \in rowsWithAccess(a) : after[s].is_revoked = 1
                   /\ ~authMiddleware(after, clients, Header(<<"Bearer", a>>), now).next)
    /\ [](\A a \in AccessTokensIssued :
            revokedOrGone(a) =>
                /\ ~bearerNow(a).next
                /\ bearerNow(a).response =
                       Response(401, "unauthorized", "Invalid or expired access token"))
    /\ [][\A a \in AccessTokensIssued : revokedOrGone(a) => revokedOrGone(a)']_vars

\* a revoked session whose token would otherwise pass: signature and both
\* expiries are good and the client is active, yet the middleware answers 401
C15_Witness ==
    \E a \in AccessTokensIssued : \E s \in rowsWithAccess(a) :
        /\ sessions[s].is_revoked = 1
        /\ verifyToken(a, now)
        /\ ~(parseDate(sessions[s].expires_at) < now)
        /\ ~clientGone(s)
        /\ bearerNow(a).response.status = 401
        /\ ~bearerNow(a).next

issuedOne(v) ==
    /\ v.response.status = 200
    /\ v.response.body.token_type = "Bearer"
    /\ v.response.body.expires_in = 3600
    /\ v.response.body.access_token # v.response.body.refresh_token
    /\ nextId \notin DOMAIN sessions
    /\ DOMAIN v.sessions = DOMAIN sessions \cup {nextId}
    /\ \A s \in DOMAIN sessions : v.sessions[s] = sessions[s]
    /\ v.sessions[nextId].access_token = v.response.body.access_token
    /\ v.sessions[nextId].refresh_token = v.response.body.refresh_token

\* an error answer of POST /auth/token, the table left as it is
refusedWith(v, status, error) ==
    /\ v.response.status = status
    /\ v.response.error = error
    /\ v.sessions = sessions

\* the outcomes of POST /auth/token, for every body a caller can send now and
\* for every call that waits for verifySecret; storeMayThrow tells whether the
\* 500 answer for a refused INSERT is one of them
tokenLadder(storeMayThrow) ==
    /\ \A id \in ClientNames \cup {""}, secret \in PresentedSecrets \cup {<<>>},
          g \in {"", "client_credentials", "refresh_token"} :
           LET r == token(clients, id, secret, g)
               v == IF r.wait
                    THEN tokenVerified(sessions, clients, Call(r.client, secret),
                                       now, nextId, nextRand)
                    ELSE [response |-> r.response, sessions |-> sessions]
           IN IF id = "" \/ secret = <<>> \/ g = ""
              THEN ~r.wait /\ refusedWith(v, 400, "invalid_request")
              ELSE IF g # "client_credentials"
              THEN ~r.wait /\ refusedWith(v, 400, "unsupported_grant_type")
              ELSE IF authenticateClient(clients, id, secret) = Null
              THEN refusedWith(v, 401, "invalid_client")
              ELSE issuedOne(v)
    /\ \A call \in BagToSet(pending) :
           LET v == tokenVerified(sessions, clients, call, now, nextId, nextRand)
           IN IF ~verifySecret(call.secret, call.client.client_secret_hash)
              THEN refusedWith(v, 401, "invalid_client")
              ELSE IF storeMayThrow /\ call.client.id \notin DOMAIN clients
              THEN refusedWith(v, 500, "server_error")
              ELSE issuedOne(v)

configuredAndEnabled(integration) ==
    /\ integration \in DOMAIN defaultIntegrations
    /\ defaultIntegrations[integration].enabled

\* the exchange was answered 404 with that error, entered no transformer and
\* issued no upstream call
notFoundOnly(exchange, error) ==
    /\ exchange.status = 404
    /\ exchange.error = error
    /\ exchange.trace = <<>>
    /\ ~exchange.outbound

\* C18: forward answers 404 integration_not_found when the integration name is
\* not configured or is disabled, and 404 endpoint_not_found when the
\* integration is configured and enabled and has no endpoint of the given
\* name; in both cases no transformer runs and no upstream call is issued.
C18_NotFoundAnswers ==
    [][\A request \in Requests, h \in ProxyHeaders :
           /\ last'.admitted
           /\ last'.route = "forward"
           /\ ProxyRequest(request, h)
           => /\ ~configuredAndEnabled(request.integration)
                 => notFoundOnly(last', "integration_not_found") /\ calls' = calls
              /\ /\ configuredAndEnabled(request.integration)
                 /\ request.endpoint \notin
                        DOMAIN defaultIntegrations[request.integration].endpoints
                 => notFoundOnly(last', "endpoint_not_found") /\ calls' = calls]_vars

\* the endpoints of enabled integrations that declare a transformer, as
\* <<integration, endpoint>>
TransformingEndpoints ==
    UNION {{<<n, e>> : e \in {x \in DOMAIN defaultIntegrations[n].endpoints :
                                "transformer" \in DOMAIN defaultIntegrations[n].endpoints[x]}} :
              n \in {x \in DOMAIN defaultIntegrations : defaultIntegrations[x].enabled}}

\* the message of the error a reservation is refused with by the validator or
\* the mapping of BookingReservationTransformer; <<>> when it is accepted
failureOf(body) ==
    CASE body = EmptyObject -> <<"Required field missing:", "reservationId">>
      [] body = [ValidReservation EXCEPT !.guestEmail = Chars(<<"a", "b">>)] ->
             <<"Invalid email format">>
      [] body = [ValidReservation EXCEPT !.checkInDate = Str("soon")] ->
             <<"Invalid date format">>
      [] body = [ValidReservation EXCEPT !.checkOutDate = DateStr(1)] ->
             <<"Check-out date must be after check-in date">>
      [] body = [ValidReservation EXCEPT !.totalAmount = Num(0)] ->
             <<"Required field missing:", "totalAmount">>
      [] body = NumericPhone -> <<"phone.replace is not a function">>
      [] OTHER -> <<>>

\* forward, for every endpoint that declares a transformer and every body
\* there is: a failed transform is answered 400 transformation_error with the
\* failure's message, and no upstream call is issued; an upstream call is
\* issued when the transform succeeded
transformFailuresAnswered ==
    \A ie \in TransformingEndpoints, body \in PresentedBodies \ {Undefined},
       query \in {<<>>, << <<"id", "42">> >>} :
        LET r == forward(ie[1], ie[2], body, query)
            name == defaultIntegrations[ie[1]].endpoints[ie[2]].transformer
            refused(trace, message) ==
                /\ r.response # Null
                /\ r.response.status = 400
                /\ r.response.error = "transformation_error"
                /\ r.response.details = message
                /\ r.trace = trace
                /\ r.call = NoCall
        IN IF name \notin Registered
           THEN refused(<<>>, <<"Transformer", name, "not found">>)
           ELSE IF body \in RejectedReservations
           THEN refused(<<"validate">>, failureOf(body))
           ELSE IF body = NumericPhone
           THEN refused(<<"validate", "transform">>, failureOf(body))
           ELSE r.call # NoCall /\ r.trace = <<"validate", "transform">>

\* execute, for every input: the validator is entered first, the mapping is
\* not entered when the validator rejected, and is entered when it accepted
validatorFirst ==
    \A body \in PresentedBodies \cup {Null} :
        LET e == execute(body)
        IN /\ e.trace[1] = "validate"
           /\ body \in RejectedReservations \cup {Undefined, Null}
              => e.threw /\ e.trace = <<"validate">>
           /\ body \in {ValidReservation, NumericPhone}
              => e.trace = <<"validate", "transform">>
           /\ ~e.threw <=> body = ValidReservation

\* C19: when the endpoint declares a transformer and the transform fails (the
\* transformer is not registered, its validator rejects the body, or the
\* mapping throws), forward answers transformation_error with the failure's
\* message and issues no upstream call; a transformer enters its validator
\* first, and enters its mapping only when the validator accepted.
C19_TransformFailure ==
    /\ transformFailuresAnswered
    /\ validatorFirst
    /\ last.error = "transformation_error"
       => /\ last.admitted
          /\ last.route = "forward"
          /\ last.status = 400
          /\ ~last.outbound
          /\ last.trace \in {<<>>, <<"validate">>, <<"validate", "transform">>}
    /\ last.outbound /\ last.route = "forward"
       => last.trace \in {<<>>, <<"validate", "transform">>}

\* an admitted request was answered transformation_error after the validator
\* had accepted its body and the mapping had thrown
C19_Witness ==
    /\ last.admitted
    /\ last.error = "transformation_error"
    /\ last.trace = <<"validate", "transform">>
    /\ ~last.outbound

\* the Authorization header is missing or malformed, or its token is invalid,
\* expired or revoked
badBearer(h) ==
    \/ ~h.present
    \/ Len(h.parts) # 2
    \/ h.parts[1] # "Bearer"
    \/ validateNow(h.parts[2]).ret = Null

\* C20: no upstream call is issued for a request to /proxy/:integration/:endpoint
\* or /proxy/:integration/status unless the middleware called next() for it:
\* every call awaited was issued for an admitted request, and a request whose
\* bearer token is missing, malformed, invalid, expired or revoked is answered
\* 401 by the middleware, enters no handler and issues no call.
C20_UpstreamOnlyAfterAuth ==
    /\ \A c \in calls : c.admitted
    /\ last.outbound => last.admitted
    /\ \A a \in AccessTokensIssued :
           \/ revokedOrGone(a)
           \/ (now \div MsPerSecond) >= a.exp
           \/ a.sig # signature(jwtSecret, a.clientId, a.type, a.jti, a.iat, a.exp)
           => /\ badBearer(Header(<<"Bearer", a>>))
              /\ badBearer(Header(<<"Bearer", forge(a)>>))
    /\ \A h \in PresentedHeaders :
           badBearer(h) =>
               \A request \in Requests :
               \E r \in {proxyRoute(sessions, clients, now, request.method,
                                    request.integration, request.endpoint, h,
                                    request.body, request.query)} :
                  /\ ~r.admitted
                  /\ r.call = NoCall
                  /\ r.trace = <<>>
                  /\ r.response.status = 401
                  /\ r.response.error = "unauthorized"

\* an upstream call is awaited for a request that was admitted, a token has
\* been revoked and one has expired, and the latest request was turned away
\* with 401
C20_Witness ==
    /\ calls # {}
    /\ \E s \in DOMAIN sessions : sessions[s].is_revoked = 1
    /\ ~last.admitted
    /\ last.status = 401
    /\ \E a \in AccessTokensIssued : (now \div MsPerSecond) >= a.exp

----------------------------------------------------------------------------
(* HttpClient: retries *)

\* the retries the call of a client is entitled to: the explicit option when
\* one is passed, otherwise what the integration configures, 3 when it
\* configures none
retryBudget(client) ==
    IF hasField(client.options, "retries") THEN client.options.retries
    ELSE IF hasField(client.integration, "retries") THEN client.integration.retries
    ELSE 3

\* C22: every HttpClient call ends after at most 1 + R attempts, R being the
\* explicit retries option when one is passed, otherwise the retries the
\* integration configures, and 3 only when it configures none; each call has
\* its own count.
C22_RetryBudget ==
    \A slot \in HttpSlots :
        http[slot].phase # "none" => http[slot].attempts <= 1 + retryBudget(http[slot])

\* C28: every header declared in auth.headers is in the result of
\* getAuthHeaders with its declared value, for every auth kind: a synthesized
\* Authorization or X-API-Key never replaces a static header of that name.
C28_StaticHeadersKept ==
    \A slot \in HttpSlots :
        http[slot].phase # "none" /\ hasField(http[slot].integration.auth, "headers") =>
            \A name \in DOMAIN http[slot].integration.auth.headers :
                /\ name \in DOMAIN http[slot].headers
                /\ http[slot].headers[name] = http[slot].integration.auth.headers[name]

----------------------------------------------------------------------------
(* Webhooks *)

WebhookRoutes == {"receive", "receiveEvent"}

\* the integration of the request has a webhook descriptor that is enabled
webhooksEnabled(config) == webhooks(config) # Undefined /\ webhooks(config).enabled

\* the integration of the request declares an allow-list of events
declaresEvents(config) == webhooks(config) # Undefined /\ hasField(webhooks(config), "events")

\* the request is one that no check made before the signature check refuses
reachesSignatureCheck(h) ==
    /\ h.route \in WebhookRoutes
    /\ enabled(h.config)
    /\ h.route = "receive" => webhooksEnabled(h.config)
    /\ h.route = "receiveEvent" /\ declaresEvents(h.config) =>
           h.event \in webhooks(h.config).events

refused(h, status, error) == h.status = status /\ h.error = error /\ ~h.processed

\* C23: on both webhook routes a request for an unknown or disabled
\* integration is answered 404 integration_not_found, and one for an enabled
\* integration whose webhook descriptor is absent or not enabled is answered
\* 400 webhooks_disabled; processWebhook is called in neither case.
C23_DisabledAnswers ==
    hook.route \in WebhookRoutes =>
        /\ ~enabled(hook.config) => refused(hook, 404, "integration_not_found")
        /\ enabled(hook.config) /\ ~webhooksEnabled(hook.config) =>
               refused(hook, 400, "webhooks_disabled")

\* C24: signature verification returns true exactly when the signature is
\* the hex HMAC-SHA256 of the payload under the integration's secret, and
\* false, never throwing, for every other signature (one of another length,
\* one with a character replaced) and when no secret is configured.
C24_SignatureVerification ==
    /\ hook.route = "validateWebhookSignature" =>
           /\ ~hook.threw
           /\ hook.value <=> /\ truthy(webhookSecret(hook.config))
                             /\ hook.provided = hmacHex(webhookSecret(hook.config), hook.raw)
    /\ hook.route \in WebhookRoutes /\ hook.verified =>
           (hook.status # 401 <=>
               hook.provided = hmacHex(webhookSecret(hook.config),
                                       JSONstringify(JSONparse(hook.raw))))

\* C25: on both webhook routes, when the integration has a secret and the
\* request carries an X-Webhook-Signature header that is not the hex HMAC of
\* the raw body under that secret, the answer is 401 invalid_signature and
\* processWebhook is not called.
C25_WrongSignatureRejected ==
    /\ reachesSignatureCheck(hook)
    /\ truthy(webhookSecret(hook.config))
    /\ hook.provided # NoSignature
    /\ hook.provided # hmacHex(webhookSecret(hook.config), hook.raw)
    => refused(hook, 401, "invalid_signature")

----------------------------------------------------------------------------
(* ProxyController.forward: the response *)

\* what an upstream can answer a call with, beyond Settlements: other
\* statuses, an object, an empty body, and the JSON body 0
Upstreams ==
    Settlements \cup
        {[kind |-> "response", status |-> 201, data |-> ValidReservation],
         [kind |-> "response", status |-> 204, data |-> Str("")],
         [kind |-> "error", status |-> 404, data |-> EmptyObject],
         [kind |-> "error", status |-> 502, data |-> Str("")],
         [kind |-> "error", status |-> 500, data |-> Num(0)]}

\* the upstream answered with a body
hasBody(upstream) == hasField(upstream, "data") /\ upstream.data # Str("")

\* forward answers the settled call as the claim says
relays(upstream) ==
    LET response == forwardSettled(upstream)
    IN IF upstream.kind = "response"
       THEN response = [status |-> upstream.status, data |-> upstream.data]
       ELSE /\ response.error = "proxy_error"
            /\ response.status = IF upstream.status # 0 THEN upstream.status ELSE 500
            /\ response.message # <<>>
            /\ response.details = IF hasBody(upstream) THEN upstream.data ELSE Null

\* C29: every invocation of forward sends exactly one response: it has
\* answered or it waits for the upstream, never both; on upstream success it
\* relays status and body unchanged, on failure it sends proxy_error with the
\* upstream status when the upstream answered and 500 otherwise, with a
\* message, and with the upstream body as details when there is one.
C29_OneResponse ==
    /\ last.admitted /\ last.route = "forward" => (last.status # 0) # last.outbound
    /\ \A c \in calls : c.route = "forward" => \A upstream \in Upstreams : relays(upstream)

----------------------------------------------------------------------------
(* The sessions table and the clients table *)

\* C30: in every reachable state each session row references an existing
\* client row: deleting a client removes its sessions in the same step, and
\* no row is inserted for a client that is gone.
C30_SessionsHaveClient ==
    \A s \in DOMAIN sessions : sessions[s].client_id \in DOMAIN clients

\* a client that had been issued tokens was deleted, its rows with it, while
\* a row of another client is kept
C30_Witness ==
    /\ sessions # <<>>
    /\ \E p \in issued :
           /\ rowsWithAccess(p.access_token) = {}
           /\ \A c \in DOMAIN clients : clients[c].client_id # p.access_token.clientId

----------------------------------------------------------------------------
(* Lifetimes of the two tokens *)

\* C31: for every access lifetime L > 0, generateTokens yields an access
\* expiry of now + L seconds and a refresh expiry of now + 24 L seconds, and
\* in every session the token and refresh endpoints created the stored
\* refresh expiry is strictly later than the stored access expiry.
C31_RefreshOutlivesAccess ==
    /\ generated # NoTokens =>
           /\ generated.expiresIn > 0
           /\ generated.tokens.expiresAt = generated.at + generated.expiresIn * MsPerSecond
           /\ generated.tokens.refreshExpiresAt
                  = generated.at + 24 * generated.expiresIn * MsPerSecond
           /\ generated.tokens.refreshExpiresAt > generated.tokens.expiresAt
    /\ \A s \in DOMAIN sessions :
           /\ textLess(sessions[s].expires_at, sessions[s].refresh_expires_at)
           /\ parseDate(sessions[s].refresh_expires_at) > parseDate(sessions[s].expires_at)

\* generateTokens was called while a session made by a refresh and the
\* session it replaced are both stored
C31_Witness ==
    /\ generated # NoTokens
    /\ generated.at > 0
    /\ rotated # {}
    /\ Cardinality(DOMAIN sessions) >= 2

----------------------------------------------------------------------------
(* The log of the transformers *)

\* the field value occurs in the item of a log entry: the item is the
\* serialisation of an object holding it (the payloads here serialise to
\* fewer characters than the log keeps)
occursIn(value, item) ==
    /\ hasField(item, "of")
    /\ \E k \in ObjectKeys(item.of.value) : item.of.value[k] = value

\* the field values of the payload that the entry holds
valuesLogged(entry, input) ==
    {k \in ObjectKeys(input) : \E f \in DOMAIN entry : occursIn(input[k], entry[f])}

\* the entry names fields of the payload
namesLogged(entry, input) ==
    {k \in ObjectKeys(input) :
        \E f \in DOMAIN entry : hasField(entry[f], "names") /\ k \in entry[f].names}

\* C32: what BaseTransformer.execute writes to the log, on the success path
\* and on the failure path alike, holds field names of the payload only and
\* never field values.
C32_LogHoldsNamesOnly ==
    \A i \in 1..Len(logged.entries) : valuesLogged(logged.entries[i], logged.input) = {}

----------------------------------------------------------------------------
(* Order of the writes of a refresh *)

\* C33: refreshAccessToken revokes the session it refreshes before it inserts
\* the replacement, without a suspension point between its lookup and its
\* insert: in no reachable state does the replacement session exist while the
\* refreshed session is still non-revoked, and no non-revoked session holds a
\* refresh token that was exchanged.
C33_RevokedBeforeReplaced ==
    /\ \A r \in rotated :
           r[2] \in DOMAIN sessions =>
               \A s \in rowsWithRefresh(r[1]) : sessions[s].is_revoked = 1
    /\ \A s \in DOMAIN sessions :
           sessions[s].is_revoked = 0 => \A r \in rotated : r[1] # sessions[s].refresh_token

\* the replacement of a refreshed session is stored and live, next to the
\* refreshed session, which is revoked
C33_Witness ==
    \E r \in rotated :
        /\ r[2] \in DOMAIN sessions
        /\ sessions[r[2]].is_revoked = 0
        /\ \E s \in rowsWithRefresh(r[1]) : sessions[s].is_revoked = 1 /\ s # r[2]

----------------------------------------------------------------------------
(* Revocation as an operation on the sessions table *)

\* C34: revocation is idempotent and scoped.  revokeSession(id) or
\* revokeAllClientSessions(c) applied twice leaves the table that applying it
\* once leaves; revokeSession changes no session other than id;
\* revokeAllClientSessions(c) marks every session of client c revoked and
\* changes no session of another client.
C34_RevocationIdempotentScoped ==
    /\ \A id \in 1..(MaxSessions + 1) :
           LET once == revokeSession(sessions, id)
           IN /\ revokeSession(once, id) = once
              /\ DOMAIN once = DOMAIN sessions
              /\ \A s \in DOMAIN sessions : s # id => once[s] = sessions[s]
              /\ id \in DOMAIN sessions =>
                     once[id] = [sessions[id] EXCEPT !.is_revoked = 1]
    /\ \A c \in ClientRows :
           LET once == revokeAllClientSessions(sessions, c)
           IN /\ revokeAllClientSessions(once, c) = once
              /\ DOMAIN once = DOMAIN sessions
              /\ \A s \in DOMAIN sessions :
                     IF sessions[s].client_id = c
                     THEN once[s] = [sessions[s] EXCEPT !.is_revoked = 1]
                     ELSE once[s] = sessions[s]

\* a revoked session of one client is stored next to a live session of the
\* other client
C34_Witness ==
    \E s, u \in DOMAIN sessions :
        /\ sessions[s].client_id # sessions[u].client_id
        /\ sessions[s].is_revoked = 1
        /\ sessions[u].is_revoked = 0
        /\ revokeAllClientSessions(sessions, sessions[s].client_id) = sessions
        /\ revokeAllClientSessions(sessions, sessions[u].client_id) # sessions

----------------------------------------------------------------------------
(* The sweep and the refresh tokens *)

\* the session is not revoked, its access expiry has passed and its refresh
\* expiry has not
refreshableButExpired(s) ==
    /\ sessions[s].is_revoked = 0
    /\ parseDate(sessions[s].expires_at) < now
    /\ now < parseDate(sessions[s].refresh_expires_at)

\* C35: cleanupExpiredSessions deletes the non-revoked sessions whose access
\* expiry has passed even when their refresh expiry is still in the future;
\* after the sweep refreshAccessToken with the refresh token of such a
\* session returns null, although the token was never used or revoked and its
\* refresh expiry has not come.
C35_SweepEndsRefreshEarly ==
    [][CleanupExpiredSessions =>
        \A s \in DOMAIN sessions :
            refreshableButExpired(s) =>
                /\ refreshNow(sessions[s].refresh_token).ret # Null
                /\ s \notin DOMAIN sessions'
                /\ refreshAccessToken(sessions', clients', sessions[s].refresh_token,
                                      now', nextId', nextRand').ret = Null
                /\ refresh(sessions', clients', sessions[s].refresh_token, "refresh_token",
                           now', nextId', nextRand').response.status = 401]_vars

\* a token pair was issued, its refresh token was never exchanged and would
\* be good for hours yet, its client is active, and the sweep took its row:
\* the refresh is refused
C35_Witness ==
    \E p \in issued :
        /\ rowsWithRefresh(p.refresh_token) = {}
        /\ \A r \in rotated : r[1] # p.refresh_token
        /\ now < (p.access_token.iat + RefreshFactor * ExpiresIn) * MsPerSecond
        /\ \E c \in DOMAIN clients :
               clients[c].client_id = p.access_token.clientId /\ clients[c].is_active = 1
        /\ refreshNow(p.refresh_token).ret = Null

----------------------------------------------------------------------------
(* Sessions and the is_active flag *)

\* C36: no session row is ever inserted for a client that is inactive at the
\* moment of insertion; a client deactivated while the verification of its
\* secret is pending gets neither a session nor a token pair.
C36_NoSessionForInactiveClient ==
    [][/\ \A s \in DOMAIN sessions' \ DOMAIN sessions :
              /\ sessions'[s].client_id \in DOMAIN clients
              /\ clients[sessions'[s].client_id].is_active = 1
       /\ \A p \in issued' \ issued :
              \E c \in DOMAIN clients :
                  clients[c].client_id = p.access_token.clientId /\ clients[c].is_active = 1]_vars

----------------------------------------------------------------------------
(* What reaches the upstream *)

\* C37: no upstream HTTP request is ever sent to an integration whose enabled
\* flag is false, on any proxy route (forward or status).
C37_NoCallToDisabled ==
    \A c \in calls : isEnabled(c.call.integration)

\* C38: whenever forward issues an upstream request for an endpoint that
\* declares a transformer, the transformer was executed on the request body
\* and accepted it; for no request body, absent, null or otherwise falsy ones
\* included, is the upstream call made with the transformer skipped.
C38_TransformerNeverSkipped ==
    [][\A request \in Requests \cup FurtherRequests, h \in ProxyHeaders :
           /\ ProxyRequest(request, h)
           /\ last'.route = "forward"
           /\ last'.outbound
           /\ <<request.integration, request.endpoint>> \in TransformingEndpoints
           => /\ last'.trace = <<"validate", "transform">>
              /\ ~execute(request.body).threw]_vars

----------------------------------------------------------------------------
(* The rate limiter *)

\* the entries of one address alone
only(obj, userIp) == [k \in DOMAIN obj \cap {userIp} |-> obj[k]]

\* C39: for each caller address the rate limiter lets at most 100 requests
\* through to next() within one window, the span of at most 60 000 ms that
\* starts at the request that opened it; every further request in the window
\* gets 429; rejected requests still count; and the counters of different
\* addresses do not affect each other.
C39_AtMostLimitPerWindow ==
    [][\A userIp \in Addresses :
        RateRequest(userIp) =>
            LET t == traffic'[userIp]
                alone == rateLimiter(only(requestCounts, userIp),
                                     only(requestTimestamps, userIp), userIp, now)
            IN /\ t.passed <= RATE_LIMIT
               /\ now - t.opened <= TIME_WINDOW
               /\ t.latest <=> t.rejected = 0
               /\ ~t.latest => t.passed = RATE_LIMIT
               /\ requestCounts'[userIp] = t.passed + t.rejected
               /\ requestTimestamps'[userIp] = t.opened
               /\ t.latest = alone.next
               /\ requestCounts'[userIp] = alone.requestCounts[userIp]
               /\ \A other \in Addresses \ {userIp} :
                      /\ only(requestCounts', other) = only(requestCounts, other)
                      /\ only(requestTimestamps', other) = only(requestTimestamps, other)
                      /\ only(traffic', other) = only(traffic, other)]_vars

\* one address has had 100 requests passed and further ones rejected in its
\* window, while a request of the other address, made in the same span, was
\* passed
C39_Witness ==
    \E userIp, other \in DOMAIN traffic :
        /\ userIp # other
        /\ traffic[userIp].passed = RATE_LIMIT
        /\ traffic[userIp].rejected = MaxOverLimit
        /\ ~traffic[userIp].latest
        /\ traffic[other].latest
        /\ traffic[other].opened >= traffic[userIp].opened
        /\ requestCounts[other] < requestCounts[userIp]

\* C40: a caller address that has been rate-limited is admitted again: the
\* first request that arrives more than 60 000 ms after its current window
\* started resets the count to 1, restarts the window at that request and is
\* passed to next(), however many requests were rejected before.
C40_AdmittedAfterWindow ==
    [][\A userIp \in Addresses :
        /\ RateRequest(userIp)
        /\ userIp \in DOMAIN traffic
        /\ now - traffic[userIp].opened > TIME_WINDOW
        => /\ requestCounts'[userIp] = 1
           /\ requestTimestamps'[userIp] = now
           /\ rateLimiter(requestCounts, requestTimestamps, userIp, now).next
           /\ traffic'[userIp].latest
           /\ traffic'[userIp].passed = 1
           /\ traffic'[userIp].rejected = 0]_vars

\* an address whose requests were rejected in a window had the first request
\* of its next window passed
C40_Witness ==
    \E userIp \in DOMAIN traffic :
        /\ traffic[userIp].limitedBefore
        /\ traffic[userIp].latest
        /\ traffic[userIp].passed = 1
        /\ requestCounts[userIp] = 1
        /\ requestTimestamps[userIp] = now

====
